---- MODULE Spec2Model ----
(***************************************************************************)
(* A model of the scheduled concurrent booking engine of pysportbot:       *)
(* schedule_bookings (the wait / re-authentication coordinator and the     *)
(* parallel dispatcher) and attempt_booking (the bounded retry loop),      *)
(* together with the parts of SportBot and Bookings they call.             *)
(*                                                                         *)
(* Time is counted in whole seconds since Monday 00:00:00 of week 0 in the *)
(* configured time zone (daylight-saving shifts are not modelled).         *)
(***************************************************************************)
EXTENDS Integers, Sequences, FiniteSets, TLC

VARIABLES
    config,               \* the configuration dictionary handed to schedule_bookings
    booking_delay,        \* parameters of schedule_bookings
    retry_attempts,
    retry_delay,
    max_threads,
    clock,                \* the wall clock, seconds
    is_logged_in,         \* SportBot._is_logged_in
    pc,                   \* position of the coordinator in schedule_bookings
    execution_time,       \* local variables of schedule_bookings
    time_until_execution,
    calls,                \* the coordinator's time.sleep / bot.login calls, in order
    exc,                  \* the exception that left schedule_bookings ("none" if none)
    pool,                 \* the ThreadPoolExecutor: [created, max_workers]
    future,               \* per class: state of the future returned by submit
    collected,            \* classes whose future the as_completed loop has handled
    logged_failed,        \* classes for which "Booking for ... failed." was logged
    attempt_num,          \* per class: locals of its attempt_booking invocation
    booking_date,
    slot_id,
    apc,                  \* per class: position inside attempt_booking
    decision,             \* per class: how the invocation ended
    last_failure,         \* per class: the exception caught in the current attempt
    n_daily_slots,        \* per class: calls of bot.daily_slots made by attempt_booking
    n_book,               \* per class: calls of bot.book
    n_post,               \* per class: booking requests sent by Bookings.book
    n_book_ok,            \* per class: calls of bot.book that returned normally
    n_sleep,              \* per class: retry sleeps
    fetched,              \* per class: what the slots fetched in the current attempt held
    n_decisions,          \* per class: number of decisions taken
    fn_call,              \* a call of a scheduling / threading helper: function, arguments
    fn_result,            \* what that call returned or raised
    df_activities,        \* SportBot._df_activities is loaded (not None)
    auth,                 \* SportBot._auth: the fields of the Authenticator
    headers,              \* the Authorization header of the shared session (<< >> if unset)
    server,               \* the platform: the day's slot table, the user's booked slots
    requests              \* the requests the last call sent to the platform, in order

vars == << config, booking_delay, retry_attempts, retry_delay, max_threads, clock,
           is_logged_in, pc, execution_time, time_until_execution, calls, exc, pool,
           future, collected, logged_failed, attempt_num, booking_date, slot_id, apc,
           decision, last_failure, n_daily_slots, n_book, n_post, n_book_ok, n_sleep,
           fetched, n_decisions, fn_call, fn_result, df_activities, auth, headers,
           server, requests >>

botVars == << df_activities, auth, headers, server, requests >>

helperVars == << fn_call, fn_result, botVars >>

coordVars == << pc, execution_time, time_until_execution, calls, exc, pool, collected,
                logged_failed >>

inputVars == << config, booking_delay, retry_attempts, retry_delay, max_threads >>

attemptVars == << attempt_num, booking_date, slot_id, apc, decision, last_failure,
                  n_daily_slots, n_book, n_post, n_book_ok, n_sleep, fetched,
                  n_decisions >>

----------------------------------------------------------------------------
(* Bounds of the model *)

MaxClasses == 2

MaxRetry == 3

MaxWork == 4

MaxThreads == 2

MaxWeek == 1

MaxUserThreads == 10

MaxBookings == 5

MaxCores == 8

MaxErrorCode == 30

----------------------------------------------------------------------------
(* Time *)

DaySecs == 24 * 60 * 60

HMS(h, m, s) == (h * 60 + m) * 60 + s

\* datetime.date(), as a day number
DateOf(t) == t \div DaySecs

\* datetime.weekday(): 0 = Monday ... 6 = Sunday
WeekdayOf(t) == DateOf(t) % 7

\* datetime.time(), seconds since midnight
TimeOf(t) == t % DaySecs

\* datetime.combine(date, time), localized
Combine(date, time) == date * DaySecs + time

DAY_MAP ==
    [d \in {"monday", "tuesday", "wednesday", "thursday", "friday", "saturday", "sunday"} |->
        CASE d = "monday" -> 0
          [] d = "tuesday" -> 1
          [] d = "wednesday" -> 2
          [] d = "thursday" -> 3
          [] d = "friday" -> 4
          [] d = "saturday" -> 5
          [] d = "sunday" -> 6]

\* str.lower().strip() on the day names a configuration carries
LowerStrip(s) ==
    CASE s = "Monday" -> "monday"
      [] s = "Tuesday" -> "tuesday"
      [] s = "Wednesday" -> "wednesday"
      [] s = "Thursday" -> "thursday"
      [] s = "Friday" -> "friday"
      [] s = "Saturday" -> "saturday"
      [] s = "Sunday" -> "sunday"
      [] OTHER -> s

\* pytz.timezone("Europe/Madrid"): the offsets from UTC in seconds, and the wall
\* time of the Sunday of week 0 at which the clocks change.  The season says
\* which week of the year week 0 is: one without a clock change ("winter"), the
\* one whose Sunday jumps from 02:00 to 03:00 ("march"), or the one whose Sunday
\* falls back from 03:00 to 02:00 ("october").
CET == 3600

CEST == 7200

Seasons == { "winter", "march", "october" }

ClockChange == 6 * DaySecs + HMS(2, 0, 0)

\* the offsets datetime.now(tz) may carry when its wall time is `wall`: none
\* inside the hour the clocks skip, both inside the hour they repeat
utcoffsets(season, wall) ==
    CASE season = "march" ->
            IF wall < ClockChange THEN {CET}
            ELSE IF wall < ClockChange + 3600 THEN {}
            ELSE {CEST}
      [] season = "october" ->
            IF wall < ClockChange THEN {CEST}
            ELSE IF wall < ClockChange + 3600 THEN {CEST, CET}
            ELSE {CET}
      [] OTHER -> {CET}

\* tz.localize preferring summer time for a wall time that is skipped or repeated
localize_IsDst(season, wall) ==
    CASE season = "march" -> IF wall < ClockChange THEN CET ELSE CEST
      [] season = "october" -> IF wall < ClockChange + 3600 THEN CEST ELSE CET
      [] OTHER -> CET

\* tz.localize(naive), is_dst=False: the offset given to a wall time; a wall
\* time that is skipped or repeated gets the standard offset
localize(season, wall) ==
    CASE season = "march" -> IF wall < ClockChange + 3600 THEN CET ELSE CEST
      [] season = "october" -> IF wall < ClockChange THEN CEST ELSE CET
      [] OTHER -> CET

\* the seconds from aware instant (wall1, offset1) to aware instant (wall2, offset2)
Elapsed(wall1, offset1, wall2, offset2) == (wall2 - offset2) - (wall1 - offset1)

\* A schedule specification: "now", or "<day> HH:MM:SS"
ExecNow == [now |-> TRUE, day |-> "", time |-> 0]

ExecAt(day, time) == [now |-> FALSE, day |-> day, time |-> time]

\* calculate_next_execution moving to the next week only when the target day lies
\* earlier in the week
calculate_next_execution_SameWeek(booking_execution, now) ==
    IF booking_execution.now
    THEN now
    ELSE LET day_of_week_target == DAY_MAP[LowerStrip(booking_execution.day)]
             ahead == day_of_week_target - WeekdayOf(now)
             days_ahead == IF ahead < 0 THEN ahead + 7 ELSE ahead
         IN  Combine(DateOf(now + days_ahead * DaySecs), booking_execution.time)

\* calculate_next_execution returning the start of today for "now"
calculate_next_execution_NowMidnight(booking_execution, now) ==
    IF booking_execution.now
    THEN Combine(DateOf(now), 0)
    ELSE LET day_of_week_target == DAY_MAP[LowerStrip(booking_execution.day)]
             current_weekday == WeekdayOf(now)
             exec_time == booking_execution.time
             ahead == day_of_week_target - current_weekday
             days_ahead == IF ahead <= 0 THEN ahead + 7 ELSE ahead
             next_execution_date ==
                 IF day_of_week_target = current_weekday /\ TimeOf(now) < exec_time
                 THEN now
                 ELSE now + days_ahead * DaySecs
         IN  Combine(DateOf(next_execution_date), exec_time)

calculate_next_execution(booking_execution, now) ==
    IF booking_execution.now
    THEN now
    ELSE LET day_of_week_target == DAY_MAP[LowerStrip(booking_execution.day)]
             current_weekday == WeekdayOf(now)
             exec_time == booking_execution.time
             ahead == day_of_week_target - current_weekday
             days_ahead == IF ahead <= 0 THEN ahead + 7 ELSE ahead
             next_execution_date ==
                 IF day_of_week_target = current_weekday /\ TimeOf(now) < exec_time
                 THEN now
                 ELSE now + days_ahead * DaySecs
         IN  Combine(DateOf(next_execution_date), exec_time)

calculate_class_day(class_day, now) ==
    LET target_weekday == DAY_MAP[LowerStrip(class_day)]
        ahead == target_weekday - WeekdayOf(now)
        days_ahead == IF ahead < 0 THEN ahead + 7 ELSE ahead
    IN  now + days_ahead * DaySecs

\* strftime("%Y-%m-%d"): the date of an instant as a string, here its day number
FormatDate(t) == DateOf(t)

\* f"{booking_date} {class_time}": a "YYYY-MM-DD HH:MM:SS" timestamp
Timestamp(date, time) == << date, time >>

\* start_time.split(" ")[0]
DatePart(timestamp) == timestamp[1]

----------------------------------------------------------------------------
(* Threads *)

Min(a, b) == IF a <= b THEN a ELSE b

----------------------------------------------------------------------------
(* Exceptions and error messages.  A message is the sequence of its words; *)
(* str(e) of an exception is its message.                                  *)

NoExc == [type |-> "none", msg |-> << >>]

Exc(type, msg) == [type |-> type, msg |-> msg]

not_logged_in == << "You", "must", "log", "in", "first." >>

login_failed == << "Login", "failed.", "Please", "check", "your", "credentials",
                   "and", "try", "again." >>

failed_fetch(resource) == << "Failed", "to", "fetch", resource, "Please", "try",
                             "again", "later." >>

\* slot_not_found without the values it is given
slot_not_found_Bare(activity_name, start_time) ==
    << "No", "slot", "found", "for", "activity", "at" >>

slot_not_found(activity_name, start_time) ==
    << "No", "slot", "found", "for", "activity", activity_name, "at",
       ToString(start_time[1]), ToString(start_time[2]) >>

slot_already_booked == << "The", "slot", "is", "already", "booked." >>

slot_unavailable == << "The", "slot", "is", "not", "available." >>

slot_not_bookable_yet == << "The", "slot", "is", "not", "bookable", "yet." >>

unknown_error(action) == << "An", "unknown", "error", "occurred", "during", action,
                            "Please", "try", "again", "later." >>

no_matching_slots_for_time(activity, class_time, date) ==
    << "No", "matching", "slots", "for", activity, "at", ToString(class_time), "on",
       ToString(date) >>

centre_not_found(centre) == << "Centre", centre, "not", "found." >>

cancellation_failed == << "Cancellation", "failed.", "The", "slot", "may", "not", "have",
                         "been", "booked." >>

no_activities_loaded == << "No", "activities", "loaded.", "Please", "log", "in",
                           "first." >>

\* Python's "needle in haystack" on strings
Contains(hay, needle) ==
    \E i \in 0 .. (Len(hay) - Len(needle)) : SubSeq(hay, i + 1, i + Len(needle)) = needle

\* time.sleep(secs) raises ValueError for a negative length
SleepRaises(secs) == secs < 0

SleepError == Exc("ValueError", << "sleep", "length", "must", "be", "non-negative" >>)

----------------------------------------------------------------------------
(* Slots, SportBot and Bookings *)

T1800 == HMS(18, 0, 0)

T175959 == HMS(17, 59, 59)

Slot(date, time, id) ==
    [start_timestamp |-> Timestamp(date, time), id_activity_calendar |-> id]

\* The slot tables the platform may return for a day
SlotTables(day) ==
    { << >>,
      << Slot(day, T1800, 1) >>,
      << Slot(day, T175959, 2) >>,
      << Slot(day, T175959, 2), Slot(day, T1800, 1), Slot(day, T1800, 3) >> }

Return(v) == [ok |-> TRUE, value |-> v, error |-> NoExc, posts |-> 0, utcoffset |-> 0]

Raise(e) == [ok |-> FALSE, value |-> << >>, error |-> e, posts |-> 0, utcoffset |-> 0]

Sent(r) == [r EXCEPT !.posts = 1]

\* The outcomes of SportBot.daily_slots(activity, day)
SportBot_daily_slots(logged_in, activity, day) ==
    IF ~logged_in
    THEN { Raise(Exc("PermissionError", not_logged_in)) }
    ELSE { Return(t) : t \in SlotTables(day) }
         \cup { Raise(Exc("ValueError", failed_fetch("slots."))) }

\* MatchingSlots with a tolerance: every slot of the day is taken as a match
MatchingSlots_Nearest(slots, timestamp) == slots

\* MatchingSlots with a window of one second around the timestamp
MatchingSlots_Window(slots, timestamp) ==
    SelectSeq(slots, LAMBDA s : /\ s.start_timestamp[1] = timestamp[1]
                                /\ s.start_timestamp[2] - timestamp[2] \in -1 .. 1)

\* slots[slots["start_timestamp"] == timestamp]
MatchingSlots(slots, timestamp) ==
    SelectSeq(slots, LAMBDA s : s.start_timestamp = timestamp)

\* The answers of the platform to a booking request
ServerResponses ==
    { [success |-> TRUE, error |-> 0] }
    \cup { [success |-> FALSE, error |-> code] : code \in {5, 6, 28, 99} }

\* Bookings.book raising ValueError for an unknown error code too
Bookings_book_UnknownAsValueError(response_json) ==
    IF response_json.success
    THEN Sent(Return(<< >>))
    ELSE LET error_code == response_json.error
         IN  CASE error_code = 5 -> Sent(Raise(Exc("ValueError", slot_already_booked)))
               [] error_code = 6 -> Sent(Raise(Exc("ValueError", slot_unavailable)))
               [] error_code = 28 -> Sent(Raise(Exc("ValueError", slot_not_bookable_yet)))
               [] OTHER -> Sent(Raise(Exc("ValueError", unknown_error("booking."))))

\* Bookings.book, given the platform's answer to the request it sends
Bookings_book(response_json) ==
    IF response_json.success
    THEN Sent(Return(<< >>))
    ELSE LET error_code == response_json.error
         IN  CASE error_code = 5 -> Sent(Raise(Exc("ValueError", slot_already_booked)))
               [] error_code = 6 -> Sent(Raise(Exc("ValueError", slot_unavailable)))
               [] error_code = 28 -> Sent(Raise(Exc("ValueError", slot_not_bookable_yet)))
               [] OTHER -> Sent(Raise(Exc("RuntimeError", unknown_error("booking."))))

\* SportBot.book sending the booking request whatever its lookup finds
SportBot_book_Unchecked(logged_in, activity, start_time) ==
    IF ~logged_in
    THEN { Raise(Exc("PermissionError", not_logged_in)) }
    ELSE UNION { IF ~r.ok
                 THEN { r }
                 ELSE LET matching_slot == MatchingSlots(r.value, start_time)
                      IN  IF matching_slot = << >>
                          THEN { Sent(Raise(Exc("IndexError",
                                                slot_not_found(activity, start_time)))) }
                          ELSE { Bookings_book(resp) : resp \in ServerResponses }
               : r \in SportBot_daily_slots(logged_in, activity, DatePart(start_time)) }

\* The outcomes of SportBot.book(activity, start_time)
SportBot_book(logged_in, activity, start_time) ==
    IF ~logged_in
    THEN { Raise(Exc("PermissionError", not_logged_in)) }
    ELSE UNION { IF ~r.ok
                 THEN { r }
                 ELSE LET matching_slot == MatchingSlots(r.value, start_time)
                      IN  IF matching_slot = << >>
                          THEN { Raise(Exc("IndexError", slot_not_found(activity, start_time))) }
                          ELSE { Bookings_book(resp) : resp \in ServerResponses }
               : r \in SportBot_daily_slots(logged_in, activity, DatePart(start_time)) }

\* The outcomes of SportBot.login(email, password, centre): the new login flag
\* and the exception raised
SportBot_login(logged_in) ==
    { [logged_in |-> TRUE, error |-> NoExc],
      [logged_in |-> logged_in, error |-> Exc("ValueError", centre_not_found("centre"))],
      [logged_in |-> FALSE, error |-> Exc("ValueError", login_failed)] }

invalid_max_threads == << "max_threads", "must", "not", "be", "0." >>

\* get_n_threads testing the number of bookings before the requested count
get_n_threads_BookingsFirst(max_user_threads, requested_bookings, cpu_count) ==
    IF requested_bookings = 0
    THEN Return(0)
    ELSE IF max_user_threads = 0
         THEN Raise(Exc("ValueError", invalid_max_threads))
         ELSE IF max_user_threads = -1
              THEN Return(Min(cpu_count, requested_bookings))
              ELSE Return(Min(Min(max_user_threads, cpu_count), requested_bookings))

\* get_n_threads(max_user_threads, requested_bookings), with the os.cpu_count() it reads
get_n_threads(max_user_threads, requested_bookings, cpu_count) ==
    IF max_user_threads = 0
    THEN Raise(Exc("ValueError", invalid_max_threads))
    ELSE IF requested_bookings = 0
         THEN Return(0)
         ELSE IF max_user_threads = -1
              THEN Return(Min(cpu_count, requested_bookings))
              ELSE Return(Min(Min(max_user_threads, cpu_count), requested_bookings))

----------------------------------------------------------------------------
(* Authenticator.  None is written "", a dict is the set of its items. *)

failed_login == << "Login", "failed.", "Please", "check", "your", "credentials",
                   "and", "try", "again." >>

\* Authenticator.__init__
NewAuthenticator ==
    [authenticated |-> FALSE, user_id |-> "", creds |-> {}, resasocial_jwt |-> "",
     id_user |-> "", id_application |-> "", sport_jwt |-> ""]

\* What the platform may answer to each request of the login flow
UserLoginReplies == { "ok", "status", "nonjson", "no_apps", "no_token", "network" }

SportTokenReplies == { "ok", "status", "nonjson", "no_token", "network" }

UserReplies == { "ok", "status", "nonjson", "no_user", "no_id", "network" }

\* the Nubapp tokens getSportUserToken may hand out
SportTokens == { "sport-jwt-1", "sport-jwt-2" }

\* The answers to one login flow; a request that is never sent, because an
\* earlier one failed, is listed as "ok"
LoginReplies ==
    { r \in [user_login : UserLoginReplies, sport_token : SportTokenReplies,
              user : UserReplies, jwt : SportTokens] :
        /\ r.user_login # "ok" => r.sport_token = "ok" /\ r.user = "ok"
        /\ r.sport_token # "ok" => r.user = "ok"
        /\ (r.user_login # "ok" \/ r.sport_token # "ok") => r.jwt = "sport-jwt-1" }

network_error == << "Connection", "aborted." >>

\* The running state of one Authenticator.login call: the object's fields, the
\* shared Authorization header, the requests sent and the exception in flight
LoginState(a, h) ==
    [a |-> a, headers |-> h, requests |-> << >>, error |-> NoExc, steps |-> << >>]

\* the steps of the login flow, in the order of the code
LoginSteps ==
    << "_resasocial_jwt_login", "creds", "_get_sport_user_token",
       "_authenticate_with_bearer_token", "_fetch_user_information" >>

Runs(s, step) == [s EXCEPT !.steps = Append(@, step)]

\* A request to the platform: the endpoint and the id_activity_calendar of its
\* payload (0 when the payload carries none)
Request(endpoint, id) == [endpoint |-> endpoint, id_activity_calendar |-> id]

Sends(s, endpoint) == [s EXCEPT !.requests = Append(@, Request(endpoint, 0))]

Throws(s, type, msg) == [s EXCEPT !.error = Exc(type, msg)]

\* Authenticator._resasocial_jwt_login
resasocial_jwt_login(s0, reply) ==
    LET s == Sends(Runs(s0, LoginSteps[1]), "USER_LOGIN")
    IN  CASE reply = "network" -> Throws(s, "ConnectionError", network_error)
          [] reply \in {"status", "nonjson"} -> Throws(s, "ValueError", failed_login)
          [] reply = "no_apps" ->
                Throws([s EXCEPT !.a.resasocial_jwt = "social-jwt"], "ValueError",
                       failed_login)
          [] reply = "no_token" ->
                Throws([s EXCEPT !.a.resasocial_jwt = "", !.a.id_application = "7",
                                 !.a.id_user = "42"], "ValueError", failed_login)
          [] OTHER ->
                [s EXCEPT !.a.resasocial_jwt = "social-jwt", !.a.id_application = "7",
                          !.a.id_user = "42"]

\* Authenticator._get_sport_user_token
get_sport_user_token(s0, reply, jwt) ==
    IF s0.a.resasocial_jwt = "" \/ s0.a.id_user = "" \/ s0.a.id_application = ""
    THEN Throws(Runs(s0, LoginSteps[3]), "ValueError", failed_login)
    ELSE LET s == Sends(Runs(s0, LoginSteps[3]), "SPORT_USER_TOKEN")
         IN  CASE reply = "network" -> Throws(s, "ConnectionError", network_error)
               [] reply \in {"status", "nonjson"} -> Throws(s, "ValueError", failed_login)
               [] reply = "no_token" ->
                     Throws([s EXCEPT !.a.sport_jwt = ""], "ValueError", failed_login)
               [] OTHER -> [s EXCEPT !.a.sport_jwt = jwt]

Bearer(token) == << "Bearer", token >>

\* Authenticator._authenticate_with_bearer_token leaving a header that is set
authenticate_with_bearer_token_Once(s0, token) ==
    LET s == [s0 EXCEPT !.steps = Append(@, "_authenticate_with_bearer_token")]
    IN  IF token = ""
        THEN [s EXCEPT !.error = [type |-> "ValueError", msg |-> failed_login]]
        ELSE IF s.headers = << >>
             THEN [s EXCEPT !.headers = << "Bearer", token >>]
             ELSE s

\* Authenticator._authenticate_with_bearer_token
authenticate_with_bearer_token(s0, token) ==
    LET s == Runs(s0, LoginSteps[4])
    IN  IF token = ""
        THEN Throws(s, "ValueError", failed_login)
        ELSE [s EXCEPT !.headers = Bearer(token)]

\* Authenticator._fetch_user_information
fetch_user_information(s0, reply) ==
    IF s0.a.sport_jwt = ""
    THEN Throws(Runs(s0, LoginSteps[5]), "ValueError", failed_login)
    ELSE LET s == Sends(Runs(s0, LoginSteps[5]), "USER")
         IN  CASE reply = "network" -> Throws(s, "ConnectionError", network_error)
               [] reply = "status" -> Throws(s, "ValueError", failed_login)
               [] reply = "nonjson" ->
                     Throws(s, "ValueError", << "Failed", "to", "parse", "user",
                                                "information" >>)
               [] reply = "no_user" ->
                     Throws(s, "ValueError", << "No", "user", "data", "found", "in",
                                                "response" >>)
               [] reply = "no_id" ->
                     Throws(s, "ValueError", << "No", "user", "ID", "found", "in",
                                                "response" >>)
               [] OTHER -> [s EXCEPT !.a.user_id = "42"]

\* A step of the try block runs only if no earlier step raised
Then(s, step(_)) == IF s.error = NoExc THEN step(s) ELSE s

\* Authenticator.login letting the exception of the failed step through
Authenticator_login_Unnormalised(a, h, replies) ==
    LET s1 == resasocial_jwt_login(LoginState(a, h), replies.user_login)
        StoreCreds(s) ==
            [Runs(s, LoginSteps[2]) EXCEPT
                !.a.creds = { << "id_application", s.a.id_application >>,
                              << "id_user", s.a.id_user >> }]
        s2 == Then(s1, StoreCreds)
        s3 == Then(s2, LAMBDA s : get_sport_user_token(s, replies.sport_token,
                                                         replies.jwt))
        s4 == Then(s3, LAMBDA s : authenticate_with_bearer_token(s, s.a.sport_jwt))
        s5 == Then(s4, LAMBDA s : fetch_user_information(s, replies.user))
    IN  IF s5.error = NoExc
        THEN [s5 EXCEPT !.a.authenticated = TRUE]
        ELSE [s5 EXCEPT !.a.authenticated = FALSE, !.a.user_id = ""]

\* Authenticator.login going on to the next step after a step has failed
Authenticator_login_KeepsGoing(a, h, replies) ==
    LET s1 == resasocial_jwt_login(LoginState(a, h), replies.user_login)
        s2 == [Runs(s1, LoginSteps[2]) EXCEPT
                  !.a.creds = { << "id_application", s1.a.id_application >>,
                                << "id_user", s1.a.id_user >> }]
        s3 == get_sport_user_token(s2, replies.sport_token, replies.jwt)
        s4 == authenticate_with_bearer_token(s3, s3.a.sport_jwt)
        s5 == fetch_user_information(s4, replies.user)
    IN  IF s5.error = NoExc
        THEN [s5 EXCEPT !.a.authenticated = TRUE]
        ELSE [s5 EXCEPT !.a.authenticated = FALSE, !.a.user_id = "",
                        !.error = Exc("ValueError", failed_login)]

\* Authenticator.login(email, password), given the platform's answers
Authenticator_login(a, h, replies) ==
    LET s1 == resasocial_jwt_login(LoginState(a, h), replies.user_login)
        StoreCreds(s) ==
            [Runs(s, LoginSteps[2]) EXCEPT
                !.a.creds = { << "id_application", s.a.id_application >>,
                              << "id_user", s.a.id_user >> }]
        s2 == Then(s1, StoreCreds)
        s3 == Then(s2, LAMBDA s : get_sport_user_token(s, replies.sport_token,
                                                         replies.jwt))
        s4 == Then(s3, LAMBDA s : authenticate_with_bearer_token(s, s.a.sport_jwt))
        s5 == Then(s4, LAMBDA s : fetch_user_information(s, replies.user))
    IN  IF s5.error = NoExc
        THEN [s5 EXCEPT !.a.authenticated = TRUE]
        ELSE [s5 EXCEPT !.a.authenticated = FALSE, !.a.user_id = "",
                        !.error = Exc("ValueError", failed_login)]

----------------------------------------------------------------------------
(* run_service.  The value of its result is the sequence of the calls it made. *)

missing_argument(name) ==
    << "missing", "1", "required", "positional", "argument:", name >>

config_error == << "Invalid", "configuration." >>

\* the parameters of SportBot.login besides self
login_parameters == << "email", "password", "centre" >>

Called(r, callee) == [r EXCEPT !.value = Append(@, callee)]

Failed(r, e) == [r EXCEPT !.ok = FALSE, !.error = e]

RECURSIVE ScheduleEach(_, _)
\* for cls in config["classes"]: schedule_bookings(...)
ScheduleEach(r, n) ==
    IF n = 0 THEN r ELSE ScheduleEach(Called(r, "schedule_bookings"), n - 1)

\* run_service(config, offset_seconds, retry_attempts, retry_delay_minutes,
\* time_zone), for a config that validation accepts or not
run_service(config_ok, n_classes) ==
    LET login_arguments == << "email", "password" >>
        r1 == Called(Return(<< >>), "SportBot.login")
    IN  IF Len(login_arguments) < Len(login_parameters)
        THEN Failed(r1, Exc("TypeError",
                            missing_argument(login_parameters[Len(login_arguments) + 1])))
        ELSE LET r2 == Called(r1, "validate_config_and_activities")
             IN  IF ~config_ok
                 THEN Failed(r2, Exc("ValueError", config_error))
                 ELSE ScheduleEach(r2, n_classes)

----------------------------------------------------------------------------
(* validate_config.  A dict is given by the set of its keys and the values   *)
(* the function reads; a string by the list of its words, str.split().       *)

missing_required_key(key) == << "Missing", "required", "key", "in", "config:", key >>

invalid_class_definition ==
    << "Each", "class", "must", "include", "activity,", "class_day,", "and",
       "class_time." >>

invalid_weekly_now == << "Invalid", "combination:", "weekly", "with", "now." >>

invalid_booking_execution_format ==
    << "Invalid", "booking_execution", "format." >>

\* the texts datetime.strptime(text, "%H:%M:%S") parses
TimeTexts == { "00:00:00", "07:30:00", "23:59:59" }

RECURSIVE FirstMissing(_, _)
\* for key in required_keys: if key not in config: the first such key, "" if none
FirstMissing(required_keys, keys) ==
    IF required_keys = << >>
    THEN ""
    ELSE IF Head(required_keys) \notin keys
         THEN Head(required_keys)
         ELSE FirstMissing(Tail(required_keys), keys)

\* the checks validate_config makes on one entry of config["classes"]
validate_class(cls) ==
    IF {"activity", "class_day", "class_time", "booking_execution", "weekly"}
          \ cls.keys # {}
    THEN Raise(Exc("ValueError", invalid_class_definition))
    ELSE IF cls.weekly /\ cls.booking_execution = << "now" >>
         THEN Raise(Exc("ValueError", invalid_weekly_now))
         ELSE IF cls.booking_execution # << "now" >>
                 /\ (\/ Len(cls.booking_execution) # 2
                     \/ cls.booking_execution[2] \notin TimeTexts)
              THEN Raise(Exc("ValueError", invalid_booking_execution_format))
              ELSE Return(<< >>)

RECURSIVE validate_classes(_)
\* for cls in config["classes"]: the first check that raises ends the loop
validate_classes(classes) ==
    IF classes = << >>
    THEN Return(<< >>)
    ELSE IF ~validate_class(Head(classes)).ok
         THEN validate_class(Head(classes))
         ELSE validate_classes(Tail(classes))

\* validate_config(config)
validate_config(cfg) ==
    LET key == FirstMissing(<< "email", "password", "classes" >>, cfg.keys)
    IN  IF key # ""
        THEN Raise(Exc("ValueError", missing_required_key(key)))
        ELSE validate_classes(cfg.classes)

----------------------------------------------------------------------------
(* Inputs *)

\* The value of an unbound local variable (booking_date before the first iteration)
Unbound == -1

\* The classes a configuration may list, in order
ClassCatalogue(i) ==
    CASE i % 3 = 1 -> [activity |-> "Yoga", class_day |-> "Wednesday", class_time |-> T1800]
      [] i % 3 = 2 -> [activity |-> "Boxing", class_day |-> "Tuesday", class_time |-> T1800]
      [] OTHER -> [activity |-> "Pilates", class_day |-> "Friday", class_time |-> T175959]

Config(n, booking_execution) ==
    [email |-> "test@example.com", password |-> "pass", centre |-> "my-gim",
     booking_execution |-> booking_execution,
     classes |-> [i \in 1 .. n |-> ClassCatalogue(i)]]

Classes == 1 .. MaxClasses

\* the time_zone parameter of schedule_bookings
time_zone == "Europe/Madrid"

\* the arguments of a future that was not submitted
NoArgs ==
    [activity |-> "", class_day |-> "", class_time |-> 0, retry_attempts |-> 0,
     retry_delay |-> 0, time_zone |-> ""]

At(weekday, time) == weekday * DaySecs + time

\* Start instants and schedule specifications of the coordinator scenarios
TimeScenarios ==
    { << At(0, HMS(9, 0, 0)), ExecAt("Monday", HMS(10, 0, 0)) >>,
      << At(0, HMS(9, 58, 59)), ExecAt("Monday", HMS(10, 0, 0)) >>,
      << At(0, HMS(9, 59, 30)), ExecAt("Monday", HMS(10, 0, 0)) >>,
      << At(0, HMS(9, 59, 59)), ExecAt("Monday", HMS(10, 0, 0)) >>,
      << At(0, HMS(22, 0, 0)), ExecAt("Monday", HMS(20, 0, 0)) >>,
      << At(6, HMS(23, 59, 0)), ExecAt("monday", HMS(0, 0, 30)) >>,
      << At(2, HMS(12, 0, 0)), ExecNow >> }

\* How long the clock may advance between two successive readings of "now"
SampleGaps == {0, 1}

\* By how long a time.sleep may overshoot the requested length
Overshoots == {0, 1}

\* How long a login may take
LoginDurations == {0, 1, 61}

\* a call of a helper function and its result
NoCall ==
    [fn |-> "none", max_user_threads |-> 0, requested_bookings |-> 0, cpu_count |-> 0,
     booking_execution |-> ExecNow, now |-> 0, class_day |-> "", activity |-> "",
     start_time |-> Timestamp(0, 0), centre |-> "", password |-> "",
     response_json |-> [success |-> TRUE, error |-> 0], config_ok |-> TRUE,
     n_classes |-> 0,
     config |-> [keys |-> {}, booking_execution |-> << >>, classes |-> << >>],
     replies |-> [user_login |-> "ok", sport_token |-> "ok", user |-> "ok",
                  jwt |-> "sport-jwt-1"],
     season |-> "winter", utcoffset |-> CET]

ThreadCall(max_user_threads, requested_bookings, cpu_count) ==
    [NoCall EXCEPT !.fn = "get_n_threads", !.max_user_threads = max_user_threads,
                   !.requested_bookings = requested_bookings, !.cpu_count = cpu_count]

ExecutionCall(booking_execution, now) ==
    [NoCall EXCEPT !.fn = "calculate_next_execution",
                   !.booking_execution = booking_execution, !.now = now]

ClassDayCall(class_day, now) ==
    [NoCall EXCEPT !.fn = "calculate_class_day", !.class_day = class_day, !.now = now]

BookingsBookCall(response_json) ==
    [NoCall EXCEPT !.fn = "Bookings.book", !.response_json = response_json]

RunServiceCall(config_ok, n_classes) ==
    [NoCall EXCEPT !.fn = "run_service", !.config_ok = config_ok,
                   !.n_classes = n_classes]

ValidateConfigCall(cfg) == [NoCall EXCEPT !.fn = "validate_config", !.config = cfg]

NoResult == Raise(NoExc)

Done(r) == r.ok \/ r.error # NoExc

InitCommon ==
    /\ pc = "start"
    /\ execution_time = 0
    /\ time_until_execution = 0
    /\ calls = << >>
    /\ exc = NoExc
    /\ pool = [created |-> FALSE, max_workers |-> 0]
    /\ future = [c \in Classes |-> [state |-> "none", exception |-> NoExc, args |-> NoArgs]]
    /\ collected = {}
    /\ logged_failed = {}
    /\ attempt_num = [c \in Classes |-> 0]
    /\ booking_date = [c \in Classes |-> Unbound]
    /\ slot_id = [c \in Classes |-> << >>]
    /\ apc = [c \in Classes |-> "idle"]
    /\ decision = [c \in Classes |-> "none"]
    /\ last_failure = [c \in Classes |-> NoExc]
    /\ n_daily_slots = [c \in Classes |-> 0]
    /\ n_book = [c \in Classes |-> 0]
    /\ n_post = [c \in Classes |-> 0]
    /\ n_book_ok = [c \in Classes |-> 0]
    /\ n_sleep = [c \in Classes |-> 0]
    /\ fetched = [c \in Classes |-> "nothing"]
    /\ n_decisions = [c \in Classes |-> 0]

\* Runs that exercise the coordinator: any time scenario, at most one class
InitTimed ==
    /\ \E sc \in TimeScenarios, n \in 0 .. 1 :
          /\ clock = sc[1]
          /\ config = Config(n, sc[2])
    /\ booking_delay \in {0, 2}
    /\ retry_attempts \in 0 .. 1
    /\ retry_delay = 0
    /\ max_threads \in 0 .. 1
    /\ is_logged_in \in BOOLEAN

\* Runs that exercise the dispatch: execution "now" on a Wednesday noon, with at
\* most MaxWork attempts over all classes
InitDispatch ==
    /\ clock = At(2, HMS(12, 0, 0))
    /\ \E n \in 1 .. MaxClasses :
          /\ config = Config(n, ExecNow)
          /\ retry_attempts \in { r \in 0 .. MaxRetry : n * r <= MaxWork }
    /\ booking_delay = 2
    /\ retry_delay \in {0, 1}
    /\ max_threads \in 1 .. MaxThreads
    /\ is_logged_in = TRUE

\* A SportBot nobody has called yet, and a platform with no slots
BotIdle ==
    /\ df_activities = FALSE
    /\ auth = NewAuthenticator
    /\ headers = << >>
    /\ server = [slots |-> << >>, booked |-> {}]
    /\ requests = << >>

Init ==
    /\ InitCommon
    /\ InitTimed \/ InitDispatch
    /\ fn_call = NoCall
    /\ fn_result = NoResult
    /\ BotIdle

----------------------------------------------------------------------------
(* schedule_bookings: the wait / re-authentication coordinator *)

\* A call of time.sleep or bot.login: its arguments, the clock when it was made
\* and whether it returned normally
SleepCall(secs, at) ==
    [op |-> "sleep", secs |-> secs, args |-> << >>, at |-> at, ok |-> ~SleepRaises(secs)]

LoginCall(email, password, centre, at, ok) ==
    [op |-> "login", secs |-> 0, args |-> << email, password, centre >>, at |-> at,
     ok |-> ok]

\* The lead of the re-authentication over the execution time, seconds
ReauthLead == 60

CoordRaise(e) ==
    /\ pc' = "raised"
    /\ exc' = e

\* CoordStart entering the waits also when no time is left
CoordStart_NoSkip ==
    /\ pc = "start"
    /\ \E gap \in SampleGaps :
          LET et == calculate_next_execution(config.booking_execution, clock)
              now == clock + gap
          IN  /\ clock' = now
              /\ execution_time' = et
              /\ time_until_execution' = et - now
              /\ pc' = IF et - now >= 0 THEN "wait_reauth" ELSE "delay"
    /\ UNCHANGED << helperVars, inputVars, is_logged_in, calls, exc, pool, future,
                    collected, logged_failed, attemptVars >>

\* lines 130-145: compute the execution time and the time until it
CoordStart ==
    /\ pc = "start"
    /\ \E gap \in SampleGaps :
          LET et == calculate_next_execution(config.booking_execution, clock)
              now == clock + gap
          IN  /\ clock' = now
              /\ execution_time' = et
              /\ time_until_execution' = et - now
              /\ pc' = IF et - now > 0 THEN "wait_reauth" ELSE "delay"
    /\ UNCHANGED << helperVars, inputVars, is_logged_in, calls, exc, pool, future, collected,
                    logged_failed, attemptVars >>

\* lines 152-154: wait for the re-authentication
CoordWaitReauth ==
    /\ pc = "wait_reauth"
    /\ LET reauth_time == time_until_execution - ReauthLead
       IN  /\ calls' = Append(calls, SleepCall(reauth_time, clock))
           /\ IF SleepRaises(reauth_time)
              THEN /\ CoordRaise(SleepError)
                   /\ UNCHANGED clock
              ELSE /\ \E over \in Overshoots : clock' = clock + reauth_time + over
                   /\ pc' = "reauth"
                   /\ UNCHANGED exc
    /\ UNCHANGED << helperVars, inputVars, is_logged_in, execution_time, time_until_execution, pool,
                    future, collected, logged_failed, attemptVars >>

\* CoordReauth with the exception logged and swallowed
CoordReauth_Swallow ==
    /\ pc = "reauth"
    /\ \E r \in SportBot_login(is_logged_in), d \in LoginDurations :
          /\ calls' = Append(calls, LoginCall(config.email, config.password,
                                              config.centre, clock, r.error = NoExc))
          /\ clock' = clock + d
          /\ is_logged_in' = r.logged_in
          /\ pc' = "wait_deadline"
          /\ UNCHANGED exc
    /\ UNCHANGED << helperVars, inputVars, execution_time, time_until_execution, pool, future,
                    collected, logged_failed, attemptVars >>

\* lines 157-162: re-authenticate
CoordReauth ==
    /\ pc = "reauth"
    /\ \E r \in SportBot_login(is_logged_in), d \in LoginDurations :
          /\ calls' = Append(calls, LoginCall(config.email, config.password,
                                              config.centre, clock, r.error = NoExc))
          /\ clock' = clock + d
          /\ is_logged_in' = r.logged_in
          /\ IF r.error # NoExc
             THEN CoordRaise(r.error)
             ELSE /\ pc' = "wait_deadline"
                  /\ UNCHANGED exc
    /\ UNCHANGED << helperVars, inputVars, execution_time, time_until_execution, pool, future,
                    collected, logged_failed, attemptVars >>

\* CoordWaitDeadline without the second reading of the clock: it sleeps the
\* time that was left before the re-authentication wait
CoordWaitDeadline_StaleNow ==
    /\ pc = "wait_deadline"
    /\ LET remaining_time == time_until_execution
       IN  IF remaining_time > 0
           THEN /\ calls' = Append(calls, SleepCall(remaining_time, clock))
                /\ \E over \in Overshoots : clock' = clock + remaining_time + over
           ELSE UNCHANGED << calls, clock >>
    /\ pc' = "delay"
    /\ UNCHANGED << helperVars, inputVars, is_logged_in, execution_time, time_until_execution, exc,
                    pool, future, collected, logged_failed, attemptVars >>

\* lines 165-169: wait the remaining time until execution
CoordWaitDeadline ==
    /\ pc = "wait_deadline"
    /\ LET now == clock
           remaining_time == execution_time - now
       IN  IF remaining_time > 0
           THEN /\ calls' = Append(calls, SleepCall(remaining_time, clock))
                /\ \E over \in Overshoots : clock' = clock + remaining_time + over
           ELSE UNCHANGED << calls, clock >>
    /\ pc' = "delay"
    /\ UNCHANGED << helperVars, inputVars, is_logged_in, execution_time, time_until_execution, exc,
                    pool, future, collected, logged_failed, attemptVars >>

\* CoordDelay without the sleep: the pool is created at the execution time
CoordDelay_NoSleep ==
    /\ pc = "delay"
    /\ pc' = "pool"
    /\ UNCHANGED << helperVars, inputVars, clock, is_logged_in, execution_time,
                    time_until_execution, calls, exc, pool, future, collected,
                    logged_failed, attemptVars >>

\* lines 172-173: the global booking delay
CoordDelay ==
    /\ pc = "delay"
    /\ calls' = Append(calls, SleepCall(booking_delay, clock))
    /\ IF SleepRaises(booking_delay)
       THEN /\ CoordRaise(SleepError)
            /\ UNCHANGED clock
       ELSE /\ \E over \in Overshoots : clock' = clock + booking_delay + over
            /\ pc' = "pool"
            /\ UNCHANGED exc
    /\ UNCHANGED << helperVars, inputVars, is_logged_in, execution_time, time_until_execution, pool,
                    future, collected, logged_failed, attemptVars >>

----------------------------------------------------------------------------
(* schedule_bookings: the parallel dispatcher *)

\* ThreadPoolExecutor(max_workers=n) raises ValueError unless n > 0
PoolRaises(n) == n <= 0

PoolError == Exc("ValueError", << "max_workers", "must", "be", "greater", "than", "0" >>)

Submitted == { c \in Classes : future[c].state # "none" }

Running == { c \in Classes : future[c].state = "running" }

Queued == { c \in Classes : future[c].state = "queued" }

Finished == { c \in Classes : future[c].state \in {"returned", "raised"} }

\* line 176: create the worker pool
CoordPool ==
    /\ pc = "pool"
    /\ IF PoolRaises(max_threads)
       THEN /\ CoordRaise(PoolError)
            /\ UNCHANGED pool
       ELSE /\ pool' = [created |-> TRUE, max_workers |-> max_threads]
            /\ pc' = "submit"
            /\ UNCHANGED exc
    /\ UNCHANGED << helperVars, inputVars, clock, is_logged_in, execution_time, time_until_execution,
                    calls, future, collected, logged_failed, attemptVars >>

\* SubmitArgs with the loop variable bound late: every work item sees the class the
\* comprehension ended on
SubmitArgs_LateBinding(cls) ==
    LET last == config.classes[Len(config.classes)]
    IN  [activity |-> last.activity, class_day |-> last.class_day,
         class_time |-> last.class_time, retry_attempts |-> retry_attempts,
         retry_delay |-> retry_delay, time_zone |-> time_zone]

\* lines 178-187: the arguments attempt_booking is submitted with (besides bot)
SubmitArgs(cls) ==
    [activity |-> cls.activity, class_day |-> cls.class_day,
     class_time |-> cls.class_time, retry_attempts |-> retry_attempts,
     retry_delay |-> retry_delay, time_zone |-> time_zone]

\* lines 177-189: submit one attempt_booking per class, in the order of the list
CoordSubmit ==
    /\ pc = "submit"
    /\ LET i == Cardinality(Submitted) + 1
       IN  IF i <= Len(config.classes)
           THEN /\ future' = [future EXCEPT ![i].state = "queued",
                                            ![i].args = SubmitArgs(config.classes[i])]
                /\ UNCHANGED pc
           ELSE /\ pc' = "collect"
                /\ UNCHANGED future
    /\ UNCHANGED << helperVars, inputVars, clock, is_logged_in, execution_time, time_until_execution,
                    calls, exc, pool, collected, logged_failed, attemptVars >>

\* CoordCollect without the try block: the exception of a future leaves
\* schedule_bookings
CoordCollect_Reraise(c) ==
    /\ pc = "collect"
    /\ c \in Finished \ collected
    /\ IF future[c].state = "raised"
       THEN /\ CoordRaise(future[c].exception)
            /\ UNCHANGED << collected, logged_failed >>
       ELSE /\ collected' = collected \cup {c}
            /\ UNCHANGED << pc, exc, logged_failed >>
    /\ UNCHANGED << helperVars, inputVars, clock, is_logged_in, execution_time,
                    time_until_execution, calls, pool, future, attemptVars >>

\* CoordCollect logging in again after a failed booking
CoordCollect_Relogin(c) ==
    /\ pc = "collect"
    /\ c \in Finished \ collected
    /\ collected' = collected \cup {c}
    /\ logged_failed' = IF future[c].state = "raised"
                        THEN logged_failed \cup {c}
                        ELSE logged_failed
    /\ IF decision[c] = "success"
       THEN UNCHANGED << calls, is_logged_in >>
       ELSE /\ calls' = Append(calls, LoginCall(config.email, config.password,
                                                config.centre, clock, TRUE))
            /\ is_logged_in' = TRUE
    /\ UNCHANGED << helperVars, inputVars, clock, pc, execution_time,
                    time_until_execution, exc, pool, future, attemptVars >>

\* lines 191-197: handle one completed future
CoordCollect(c) ==
    /\ pc = "collect"
    /\ c \in Finished \ collected
    /\ collected' = collected \cup {c}
    /\ logged_failed' = IF future[c].state = "raised"
                        THEN logged_failed \cup {c}
                        ELSE logged_failed
    /\ UNCHANGED << helperVars, inputVars, clock, is_logged_in, pc, execution_time,
                    time_until_execution, calls, exc, pool, future, attemptVars >>

\* CoordReturn leaving the with block without waiting for the futures
CoordReturn_NoWait ==
    /\ pc = "collect"
    /\ pc' = "returned"
    /\ UNCHANGED << helperVars, inputVars, clock, is_logged_in, execution_time, time_until_execution,
                    calls, exc, pool, future, collected, logged_failed, attemptVars >>

\* the end of the with block: every future was handled
CoordReturn ==
    /\ pc = "collect"
    /\ collected = Submitted
    /\ pc' = "returned"
    /\ UNCHANGED << helperVars, inputVars, clock, is_logged_in, execution_time, time_until_execution,
                    calls, exc, pool, future, collected, logged_failed, attemptVars >>

\* WorkerStart with one thread per work item
WorkerStart_Unbounded(c) ==
    /\ pool.created
    /\ c \in Queued
    /\ \A d \in Queued : c <= d
    /\ future' = [future EXCEPT ![c].state = "running"]
    /\ apc' = [apc EXCEPT ![c] = "loop"]
    /\ UNCHANGED << helperVars, inputVars, clock, is_logged_in, coordVars, attempt_num,
                    booking_date, slot_id, decision, last_failure, n_daily_slots, n_book,
                    n_post, n_book_ok, n_sleep, fetched, n_decisions >>

\* a free worker of the pool takes the oldest queued work item
WorkerStart(c) ==
    /\ pool.created
    /\ c \in Queued
    /\ \A d \in Queued : c <= d
    /\ Cardinality(Running) < pool.max_workers
    /\ future' = [future EXCEPT ![c].state = "running"]
    /\ apc' = [apc EXCEPT ![c] = "loop"]
    /\ UNCHANGED << helperVars, inputVars, clock, is_logged_in, coordVars, attempt_num, booking_date,
                    slot_id, decision, last_failure, n_daily_slots, n_book, n_post,
                    n_book_ok, n_sleep, fetched, n_decisions >>

----------------------------------------------------------------------------
(* attempt_booking *)

\* Catches narrowed to "except ValueError"
Catches_ValueErrorOnly(e) == e.type = "ValueError"

\* line 70: "except Exception" catches every exception the calls raise
Catches(e) == TRUE

\* IsAlreadyBooked matching on the words the slot messages share
IsAlreadyBooked_Prefix(error_str) == Contains(error_str, << "The", "slot", "is" >>)

\* line 74: ErrorMessages.slot_already_booked() in error_str
IsAlreadyBooked(error_str) == Contains(error_str, slot_already_booked)

\* AfterFailure retrying an "already booked" failure like any other
AfterFailure_NoTerminal(e, attempt, retries) ==
    IF attempt < retries THEN "sleep" ELSE "loop"

\* AfterFailure sleeping after the last attempt too
AfterFailure_SleepAlways(e, attempt, retries) ==
    IF IsAlreadyBooked(e.msg)
    THEN "return"
    ELSE IF attempt <= retries THEN "sleep" ELSE "loop"

\* lines 74-80: what follows a failed attempt: "return", "sleep" or the next
\* iteration of the loop
AfterFailure(e, attempt, retries) ==
    IF IsAlreadyBooked(e.msg)
    THEN "return"
    ELSE IF attempt < retries THEN "sleep" ELSE "loop"

\* AfterSuccess without the else branch: the loop goes on
AfterSuccess_Continue(attempt, retries) == "loop"

\* lines 81-82: what follows an attempt that raised nothing
AfterSuccess(attempt, retries) == "return"

\* range(1, retry_attempts + 1) has a next element
HasNextAttempt(attempt, retries) == attempt + 1 <= retries

\* Decide with the outcome kept in state the invocations share: it ends the
\* running siblings too
Decide_StopsSiblings(c, d) ==
    /\ apc' = [x \in Classes |-> IF x = c \/ apc[x] \in {"loop", "book", "sleep"}
                                 THEN "done"
                                 ELSE apc[x]]
    /\ decision' = [decision EXCEPT ![c] = d]
    /\ n_decisions' = [n_decisions EXCEPT ![c] = @ + 1]
    /\ future' = [x \in Classes |-> IF x = c \/ apc[x] \in {"loop", "book", "sleep"}
                                    THEN [future[x] EXCEPT !.state = "returned"]
                                    ELSE future[x]]

\* the invocation of class c returns with the given decision
Decide(c, d) ==
    /\ apc' = [apc EXCEPT ![c] = "done"]
    /\ decision' = [decision EXCEPT ![c] = d]
    /\ n_decisions' = [n_decisions EXCEPT ![c] = @ + 1]
    /\ future' = [future EXCEPT ![c].state = "returned"]

\* exception e leaves the invocation of class c
Escape(c, e) ==
    /\ apc' = [apc EXCEPT ![c] = "done"]
    /\ future' = [future EXCEPT ![c].state = "raised", ![c].exception = e]
    /\ UNCHANGED << decision, n_decisions >>

\* lines 70-80: attempt `attempt` of class c raised e
Fail(c, e, attempt) ==
    /\ last_failure' = [last_failure EXCEPT ![c] = e]
    /\ IF ~Catches(e)
       THEN Escape(c, e)
       ELSE LET next == AfterFailure(e, attempt, future[c].args.retry_attempts)
            IN  IF next = "return"
                THEN Decide(c, "already_booked")
                ELSE /\ apc' = [apc EXCEPT ![c] = next]
                     /\ UNCHANGED << decision, n_decisions, future >>

\* lines 56-66: the loop head, the class day, the slots of the day and the match;
\* after the loop, line 86
AttemptLoop(c) ==
    /\ apc[c] = "loop"
    /\ LET cls == future[c].args
       IN  IF HasNextAttempt(attempt_num[c], cls.retry_attempts)
           THEN LET k == attempt_num[c] + 1
                    date == FormatDate(calculate_class_day(cls.class_day, clock))
                    wanted == Timestamp(date, cls.class_time)
                IN  /\ attempt_num' = [attempt_num EXCEPT ![c] = k]
                    /\ booking_date' = [booking_date EXCEPT ![c] = date]
                    /\ n_daily_slots' = [n_daily_slots EXCEPT ![c] = @ + 1]
                    /\ \E r \in SportBot_daily_slots(is_logged_in, cls.activity, date) :
                          IF ~r.ok
                          THEN /\ Fail(c, r.error, k)
                               /\ fetched' = [fetched EXCEPT ![c] = "nothing"]
                               /\ UNCHANGED slot_id
                          ELSE LET matching_slots == MatchingSlots(r.value, wanted)
                               IN  /\ fetched' = [fetched EXCEPT ![c] =
                                         IF \E i \in 1 .. Len(r.value) :
                                                r.value[i].start_timestamp = wanted
                                         THEN "match"
                                         ELSE "no_match"]
                                   /\ IF matching_slots = << >>
                                      THEN /\ Fail(c, Exc("ValueError",
                                                          no_matching_slots_for_time(
                                                              cls.activity, cls.class_time,
                                                              date)), k)
                                           /\ UNCHANGED slot_id
                                      ELSE /\ slot_id' = [slot_id EXCEPT ![c] =
                                                  matching_slots[1].start_timestamp]
                                           /\ apc' = [apc EXCEPT ![c] = "book"]
                                           /\ last_failure' = [last_failure EXCEPT ![c] = NoExc]
                                           /\ UNCHANGED << decision, n_decisions, future >>
           ELSE /\ IF booking_date[c] = Unbound
                   THEN Escape(c, Exc("UnboundLocalError", << "booking_date" >>))
                   ELSE Decide(c, "exhausted")
                /\ UNCHANGED << attempt_num, booking_date, n_daily_slots, slot_id,
                                last_failure, fetched >>
    /\ UNCHANGED << helperVars, inputVars, clock, is_logged_in, coordVars, n_book, n_post, n_book_ok,
                    n_sleep >>

\* lines 68-82: bot.book, then the except block or the else block
AttemptBook(c) ==
    /\ apc[c] = "book"
    /\ n_book' = [n_book EXCEPT ![c] = @ + 1]
    /\ \E r \in SportBot_book(is_logged_in, future[c].args.activity, slot_id[c]) :
          /\ n_post' = [n_post EXCEPT ![c] = @ + r.posts]
          /\ IF r.ok
             THEN /\ n_book_ok' = [n_book_ok EXCEPT ![c] = @ + 1]
                  /\ UNCHANGED last_failure
                  /\ LET next == AfterSuccess(attempt_num[c], future[c].args.retry_attempts)
                     IN  IF next = "return"
                         THEN Decide(c, "success")
                         ELSE /\ apc' = [apc EXCEPT ![c] = next]
                              /\ UNCHANGED << decision, n_decisions, future >>
             ELSE /\ Fail(c, r.error, attempt_num[c])
                  /\ UNCHANGED n_book_ok
    /\ UNCHANGED << helperVars, inputVars, clock, is_logged_in, coordVars, attempt_num, booking_date,
                    slot_id, n_daily_slots, n_sleep, fetched >>

\* line 80: time.sleep(retry_delay)
AttemptSleep(c) ==
    /\ apc[c] = "sleep"
    /\ IF SleepRaises(future[c].args.retry_delay)
       THEN /\ Escape(c, SleepError)
            /\ UNCHANGED << clock, n_sleep >>
       ELSE /\ apc' = [apc EXCEPT ![c] = "loop"]
            /\ clock' = clock + future[c].args.retry_delay
            /\ n_sleep' = [n_sleep EXCEPT ![c] = @ + 1]
            /\ UNCHANGED << future, decision, n_decisions >>
    /\ UNCHANGED << helperVars, inputVars, is_logged_in, coordVars, attempt_num, booking_date, slot_id,
                    last_failure, n_daily_slots, n_book, n_post, n_book_ok, fetched >>

----------------------------------------------------------------------------
(* The specification *)

Next ==
    \/ CoordStart
    \/ CoordWaitReauth
    \/ CoordReauth
    \/ CoordWaitDeadline
    \/ CoordDelay
    \/ CoordPool
    \/ CoordSubmit
    \/ CoordReturn
    \/ \E c \in Classes : CoordCollect(c)
    \/ \E c \in Classes : WorkerStart(c)
    \/ \E c \in Classes : AttemptLoop(c)
    \/ \E c \in Classes : AttemptBook(c)
    \/ \E c \in Classes : AttemptSleep(c)

Spec == Init /\ [][Next]_vars

\* the steps of the thread that runs schedule_bookings
Coordinator ==
    \/ CoordStart
    \/ CoordWaitReauth
    \/ CoordReauth
    \/ CoordWaitDeadline
    \/ CoordDelay
    \/ CoordPool
    \/ CoordSubmit
    \/ CoordReturn
    \/ \E c \in Classes : CoordCollect(c)

\* the steps of the worker thread that runs the work item of class c
Worker(c) ==
    \/ WorkerStart(c)
    \/ AttemptLoop(c)
    \/ AttemptBook(c)
    \/ AttemptSleep(c)

\* Every thread that can take a step eventually takes one: each sleep and each
\* call to the platform returns, and a free worker picks up queued work
FairSpec ==
    /\ Init
    /\ [][Next]_vars
    /\ WF_vars(Coordinator)
    /\ \A c \in Classes : WF_vars(Worker(c))

----------------------------------------------------------------------------
(* The scheduling and threading helpers, called on their own *)

\* the calls of get_n_threads: the requested thread count, the number of bookings
\* and what os.cpu_count() reports
ThreadCalls ==
    { ThreadCall(m, n, cpu) : m \in -2 .. MaxUserThreads, n \in 0 .. MaxBookings,
                              cpu \in 1 .. MaxCores }

DayNames ==
    {"Monday", "Tuesday", "Wednesday", "Thursday", "Friday", "Saturday", "Sunday",
     "monday", "friday"}

TimesOfDay ==
    {HMS(0, 0, 0), HMS(1, 59, 59), HMS(2, 30, 0), HMS(3, 0, 0), HMS(7, 29, 59),
     HMS(7, 30, 0), HMS(7, 30, 1), HMS(12, 0, 0), HMS(20, 0, 0), HMS(22, 0, 0),
     HMS(23, 59, 59)}

\* the instants datetime.now(tz) may report
Instants ==
    { (w * 7 + d) * DaySecs + t : w \in 0 .. MaxWeek, d \in 0 .. 6, t \in TimesOfDay }

\* the calls of calculate_next_execution, with the instant it reads as now
ExecutionCalls ==
    { [ExecutionCall(c[1], c[2]) EXCEPT !.season = c[3], !.utcoffset = c[4]] :
         c \in { c \in ({ExecNow} \cup { ExecAt(day, t) : day \in DayNames, t \in TimesOfDay })
                       \X Instants \X Seasons \X {CET, CEST} :
                    c[4] \in utcoffsets(c[3], c[2]) } }

\* the calls of calculate_class_day, with the instant it reads as now
ClassDayCalls == { ClassDayCall(day, now) : day \in DayNames, now \in Instants }

\* the answers Bookings.book may read: success, or any error code
BookingResponses ==
    { [success |-> TRUE, error |-> 0] }
    \cup { [success |-> FALSE, error |-> code] : code \in 0 .. MaxErrorCode }

BookingsBookCalls == { BookingsBookCall(r) : r \in BookingResponses }

\* the booking_execution texts of the tests: "now", "Monday 07:30:00",
\* "Monday07:30:00" and a time no clock shows
ExecutionTexts ==
    { << "now" >>, << "Monday", "07:30:00" >>, << "Monday07:30:00" >>,
      << "Monday", "25:00:00" >> }

TopLevelKeys == { "email", "password", "centre", "classes", "booking_execution" }

ClassKeys == { "activity", "class_day", "class_time" }

\* the class entries: with the three class keys or one of them missing, with
\* or without booking_execution and weekly of their own
ClassEntries ==
    { [keys |-> k \cup own, booking_execution |-> be, weekly |-> w] :
        k \in { ClassKeys } \cup { ClassKeys \ { x } : x \in ClassKeys },
        own \in { {}, { "booking_execution", "weekly" } },
        be \in { << "now" >>, << "Monday", "07:30:00" >> },
        w \in BOOLEAN }

ConfigShapes ==
    { [keys |-> k, booking_execution |-> be, classes |-> cs] :
        k \in { TopLevelKeys } \cup { TopLevelKeys \ { x } :
                                       x \in { "email", "password", "classes" } },
        be \in ExecutionTexts,
        cs \in { << >> } \cup { << c >> : c \in ClassEntries } }

ValidateConfigCalls == { ValidateConfigCall(cfg) : cfg \in ConfigShapes }

RunServiceCalls ==
    { RunServiceCall(ok, n) : ok \in BOOLEAN, n \in 0 .. MaxClasses }

HelperInit ==
    /\ InitCommon
    /\ clock = 0
    /\ config = Config(0, ExecNow)
    /\ booking_delay = 0
    /\ retry_attempts = 1
    /\ retry_delay = 0
    /\ max_threads = 1
    /\ is_logged_in = FALSE
    /\ fn_call \in ThreadCalls \cup ExecutionCalls \cup ClassDayCalls
                   \cup BookingsBookCalls \cup RunServiceCalls
                   \cup ValidateConfigCalls
    /\ fn_result = NoResult
    /\ BotIdle

serviceVars == << inputVars, clock, is_logged_in, coordVars, future, attemptVars >>

Apply_get_n_threads ==
    /\ fn_call.fn = "get_n_threads"
    /\ ~Done(fn_result)
    /\ fn_result' = get_n_threads(fn_call.max_user_threads, fn_call.requested_bookings,
                                  fn_call.cpu_count)
    /\ UNCHANGED << fn_call, serviceVars, botVars >>

Apply_calculate_next_execution ==
    /\ fn_call.fn = "calculate_next_execution"
    /\ ~Done(fn_result)
    /\ \E r \in { calculate_next_execution(fn_call.booking_execution, fn_call.now) } :
          fn_result' =
             [Return(r) EXCEPT
                 !.utcoffset = IF fn_call.booking_execution.now
                               THEN fn_call.utcoffset
                               ELSE localize(fn_call.season, r)]
    /\ UNCHANGED << fn_call, serviceVars, botVars >>

Apply_calculate_class_day ==
    /\ fn_call.fn = "calculate_class_day"
    /\ ~Done(fn_result)
    /\ fn_result' = Return(calculate_class_day(fn_call.class_day, fn_call.now))
    /\ UNCHANGED << fn_call, serviceVars, botVars >>

Apply_Bookings_book ==
    /\ fn_call.fn = "Bookings.book"
    /\ ~Done(fn_result)
    /\ fn_result' = Bookings_book(fn_call.response_json)
    /\ UNCHANGED << fn_call, serviceVars, botVars >>

Apply_run_service ==
    /\ fn_call.fn = "run_service"
    /\ ~Done(fn_result)
    /\ fn_result' = run_service(fn_call.config_ok, fn_call.n_classes)
    /\ UNCHANGED << fn_call, serviceVars, botVars >>

Apply_validate_config ==
    /\ fn_call.fn = "validate_config"
    /\ ~Done(fn_result)
    /\ fn_result' = validate_config(fn_call.config)
    /\ UNCHANGED << fn_call, serviceVars, botVars >>

HelperNext ==
    \/ Apply_get_n_threads
    \/ Apply_calculate_next_execution
    \/ Apply_calculate_class_day
    \/ Apply_Bookings_book
    \/ Apply_run_service
    \/ Apply_validate_config

HelperSpec == HelperInit /\ [][HelperNext]_vars

----------------------------------------------------------------------------
(* SportBot and Bookings, called on their own against a platform that keeps *)
(* the user's bookings                                                      *)

\* The day whose slots the platform serves
BotDay == 2

T180001 == HMS(18, 0, 1)

Centres == { "my-gim" }

BotCall(fn, activity, start_time) ==
    [NoCall EXCEPT !.fn = fn, !.activity = activity, !.start_time = start_time]

BotLoginCall(centre, password) ==
    [NoCall EXCEPT !.fn = "login", !.centre = centre, !.password = password]

\* What a call on the bot leaves behind: the result, the requests it sent, the
\* platform afterwards
Outcome(result, sent, srv) == [result |-> result, requests |-> sent, server |-> srv]

\* The platform answering a booking request for a slot
Server_book(srv, id) ==
    IF id \in srv.booked
    THEN { [server |-> srv, response_json |-> [success |-> FALSE, error |-> 5]] }
    ELSE { [server |-> [srv EXCEPT !.booked = @ \cup {id}],
            response_json |-> [success |-> TRUE, error |-> 0]] }
         \cup { [server |-> srv, response_json |-> [success |-> FALSE, error |-> code]]
                 : code \in {6, 28, 99} }

\* The platform answering a cancellation request for a slot
Server_cancel(srv, id) ==
    IF id \in srv.booked
    THEN [server |-> [srv EXCEPT !.booked = @ \ {id}],
          response_json |-> [success |-> TRUE, error |-> 0]]
    ELSE [server |-> srv, response_json |-> [success |-> FALSE, error |-> 0]]

\* Bookings.cancel returning normally whatever the platform answers
Bookings_cancel_Silent(response_json) == Sent(Return(<< >>))

\* Bookings.cancel, given the platform's answer to the request it sends
Bookings_cancel(response_json) ==
    IF response_json.success
    THEN Sent(Return(<< >>))
    ELSE Sent(Raise(Exc("ValueError", cancellation_failed)))

\* The guards every query of the bot starts with
\* the guards without the test of the login flag
Guard_ActivitiesOnly ==
    IF ~df_activities
    THEN Raise(Exc("ValueError", no_activities_loaded))
    ELSE Return(<< >>)

Guard ==
    IF ~is_logged_in
    THEN Raise(Exc("PermissionError", not_logged_in))
    ELSE IF ~df_activities
         THEN Raise(Exc("ValueError", no_activities_loaded))
         ELSE Return(<< >>)

\* SportBot.activities()
Bot_activities ==
    IF ~Guard.ok
    THEN { Outcome(Guard, << >>, server) }
    ELSE { Outcome(Return(<< "Yoga", "Boxing", "Pilates" >>), << >>, server) }

\* SportBot.daily_slots(activity, day)
Bot_daily_slots(activity, day) ==
    IF ~Guard.ok
    THEN { Outcome(Guard, << >>, server) }
    ELSE { Outcome(Return(server.slots), << Request("SLOTS", 0) >>, server),
           Outcome(Raise(Exc("ValueError", failed_fetch("slots."))),
                   << Request("SLOTS", 0) >>, server) }

\* matching_slot.iloc[-1]: the last matching row
iloc0_Last(matching_slot) == matching_slot[Len(matching_slot)]

\* matching_slot.iloc[0]
iloc0(matching_slot) == matching_slot[1]

\* SportBot.book(activity, start_time)
Bot_book(activity, start_time) ==
    IF ~Guard.ok
    THEN { Outcome(Guard, << >>, server) }
    ELSE UNION {
           IF ~d.result.ok
           THEN { d }
           ELSE LET matching_slot == MatchingSlots(d.result.value, start_time)
                IN  IF matching_slot = << >>
                    THEN { Outcome(Raise(Exc("IndexError",
                                             slot_not_found(activity, start_time))),
                                   d.requests, server) }
                    ELSE LET slot_id_ == iloc0(matching_slot).id_activity_calendar
                         IN  { Outcome(Bookings_book(a.response_json),
                                       Append(d.requests, Request("BOOKING", slot_id_)),
                                       a.server)
                               : a \in Server_book(server, slot_id_) }
           : d \in Bot_daily_slots(activity, DatePart(start_time)) }

\* SportBot.cancel(activity, start_time)
Bot_cancel(activity, start_time) ==
    IF ~Guard.ok
    THEN { Outcome(Guard, << >>, server) }
    ELSE UNION {
           IF ~d.result.ok
           THEN { d }
           ELSE LET matching_slot == MatchingSlots(d.result.value, start_time)
                IN  IF matching_slot = << >>
                    THEN { Outcome(Raise(Exc("IndexError",
                                             slot_not_found(activity, start_time))),
                                   d.requests, server) }
                    ELSE LET slot_id_ == iloc0(matching_slot).id_activity_calendar
                             a == Server_cancel(server, slot_id_)
                         IN  { Outcome(Bookings_cancel(a.response_json),
                                       Append(d.requests,
                                              Request("CANCELLATION", slot_id_)),
                                       a.server) }
           : d \in Bot_daily_slots(activity, DatePart(start_time)) }

\* The platform rejects a wrong password at /user/login
AcceptableReplies(password) ==
    { r \in LoginReplies : password # "pass" => r.user_login = "status" }

\* The bot after SportBot.login(email, password, centre), given the platform's
\* answers to the login flow and to the fetch of the activities
Bot_login(centre, replies, fetch_ok) ==
    IF centre \notin Centres
    THEN [is_logged_in |-> is_logged_in, df_activities |-> df_activities, auth |-> auth,
          headers |-> headers, requests |-> << >>,
          error |-> Exc("ValueError", centre_not_found(centre))]
    ELSE LET s == Authenticator_login(NewAuthenticator, headers, replies)
         IN  IF s.error # NoExc
             THEN [is_logged_in |-> FALSE, df_activities |-> df_activities,
                   auth |-> s.a, headers |-> s.headers, requests |-> s.requests,
                   error |-> s.error]
             ELSE IF ~fetch_ok
                  THEN [is_logged_in |-> FALSE, df_activities |-> df_activities,
                        auth |-> s.a, headers |-> s.headers,
                        requests |-> Append(s.requests, Request("ACTIVITIES", 0)),
                        error |-> Exc("ValueError", failed_fetch("activities."))]
                  ELSE [is_logged_in |-> TRUE, df_activities |-> TRUE,
                        auth |-> s.a, headers |-> s.headers,
                        requests |-> Append(s.requests, Request("ACTIVITIES", 0)),
                        error |-> NoExc]

BotActivities == { "Yoga" }

BotTimes == { T175959, T1800, T180001 }

BotInit ==
    /\ InitCommon
    /\ clock = 0
    /\ config = Config(0, ExecNow)
    /\ booking_delay = 0
    /\ retry_attempts = 1
    /\ retry_delay = 0
    /\ max_threads = 1
    /\ is_logged_in = FALSE
    /\ fn_call = NoCall
    /\ fn_result = NoResult
    /\ df_activities = FALSE
    /\ auth = NewAuthenticator
    /\ headers = << >>
    /\ server \in [slots : SlotTables(BotDay), booked : { {} }]
    /\ requests = << >>

engineVars == << inputVars, clock, coordVars, future, attemptVars >>

BotLogin ==
    \E centre \in Centres \cup { "nowhere" }, password \in { "pass", "wrong" },
       fetch_ok \in BOOLEAN :
       \E replies \in AcceptableReplies(password) :
          \E b \in { Bot_login(centre, replies, fetch_ok) } :
              /\ fn_call' = BotLoginCall(centre, password)
              /\ fn_result' = IF b.error = NoExc THEN Return(<< >>) ELSE Raise(b.error)
              /\ is_logged_in' = b.is_logged_in
              /\ df_activities' = b.df_activities
              /\ auth' = b.auth
              /\ headers' = b.headers
              /\ requests' = b.requests
              /\ UNCHANGED << server, engineVars >>

\* what a query of the bot leaves as it is
queryFrame == << is_logged_in, df_activities, auth, headers, engineVars >>

BotGetActivities ==
    \E o \in Bot_activities :
       /\ fn_call' = BotCall("activities", "", Timestamp(0, 0))
       /\ fn_result' = o.result
       /\ requests' = o.requests
       /\ server' = o.server
       /\ UNCHANGED queryFrame

BotDailySlots ==
    \E activity \in BotActivities :
       \E o \in Bot_daily_slots(activity, BotDay) :
          /\ fn_call' = BotCall("daily_slots", activity, Timestamp(BotDay, 0))
          /\ fn_result' = o.result
          /\ requests' = o.requests
          /\ server' = o.server
          /\ UNCHANGED queryFrame

BotBook ==
    \E activity \in BotActivities, time \in BotTimes :
       \E o \in Bot_book(activity, Timestamp(BotDay, time)) :
          /\ fn_call' = BotCall("book", activity, Timestamp(BotDay, time))
          /\ fn_result' = o.result
          /\ requests' = o.requests
          /\ server' = o.server
          /\ UNCHANGED queryFrame

BotCancel ==
    \E activity \in BotActivities, time \in BotTimes :
       \E o \in Bot_cancel(activity, Timestamp(BotDay, time)) :
          /\ fn_call' = BotCall("cancel", activity, Timestamp(BotDay, time))
          /\ fn_result' = o.result
          /\ requests' = o.requests
          /\ server' = o.server
          /\ UNCHANGED queryFrame

BotNext ==
    \/ BotLogin
    \/ BotGetActivities
    \/ BotDailySlots
    \/ BotBook
    \/ BotCancel

BotSpec == BotInit /\ [][BotNext]_vars

-----------------------------------------------------------------------------
(* One Authenticator and the session headers it shares, under any sequence of
   calls.  The variable calls keeps the outcomes of the logins made so far; the
   value of a login's result is the sequence of the steps it ran. *)

MaxLogins == 3

AuthLoginCall(replies) == [NoCall EXCEPT !.fn = "Authenticator.login", !.replies = replies]

AuthInit ==
    /\ BotInit
    /\ server.slots = CHOOSE t \in SlotTables(BotDay) : TRUE

authFrame == << is_logged_in, df_activities, server, engineVars >>

\* auth.login(email, password) on the Authenticator at hand
AuthLogin ==
    /\ Len(calls) < MaxLogins
    /\ \E replies \in LoginReplies :
          \E s \in { Authenticator_login(auth, headers, replies) } :
             /\ fn_call' = AuthLoginCall(replies)
             /\ fn_result' = [Return(s.steps) EXCEPT !.ok = s.error = NoExc,
                                                     !.error = s.error]
             /\ auth' = s.a
             /\ headers' = s.headers
             /\ requests' = s.requests
             /\ calls' = Append(calls, [op |-> "login", ok |-> s.error = NoExc,
                                        jwt |-> s.a.sport_jwt])
    /\ UNCHANGED << is_logged_in, df_activities, server, inputVars, clock, pc,
                    execution_time, time_until_execution, exc, pool, collected,
                    logged_failed, future, attemptVars >>

\* Authenticator(session, centre): a new object on the session's headers
AuthNew ==
    /\ fn_call.fn # "Authenticator"
    /\ fn_call' = [NoCall EXCEPT !.fn = "Authenticator"]
    /\ fn_result' = Return(<< >>)
    /\ auth' = NewAuthenticator
    /\ requests' = << >>
    /\ UNCHANGED << headers, authFrame >>

\* auth.is_session_valid(), the platform accepting the token or not
AuthSessionValid ==
    /\ fn_call' = [NoCall EXCEPT !.fn = "is_session_valid"]
    /\ IF auth.sport_jwt = ""
       THEN /\ fn_result' = Return(<< "False" >>)
            /\ requests' = << >>
       ELSE /\ \E valid \in { "True", "False" } : fn_result' = Return(<< valid >>)
            /\ requests' = << Request("USER", 0) >>
    /\ UNCHANGED << auth, headers, authFrame >>

AuthNext ==
    \/ AuthLogin
    \/ AuthNew
    \/ AuthSessionValid

AuthSpec == AuthInit /\ [][AuthNext]_vars

----------------------------------------------------------------------------
(* Properties of attempt_booking *)

AlreadyBookedError == Exc("ValueError", slot_already_booked)

NoMatchError(c) ==
    Exc("ValueError",
        no_matching_slots_for_time(config.classes[c].activity, config.classes[c].class_time,
                                   booking_date[c]))

Invoked == { c \in Classes : apc[c] # "idle" }

\* the calls attempt_booking of class c has made so far
CallCounts(c) == << attempt_num[c], n_daily_slots[c], n_book[c], n_post[c], n_sleep[c] >>

\* the except block of the current attempt handled a retryable failure: it sleeps
\* and goes on while attempts remain, and otherwise ends the invocation
RetryLogicApplied(c) ==
    IF attempt_num[c] < retry_attempts
    THEN \/ apc[c] = "sleep" /\ n_sleep[c] = attempt_num[c] - 1
         \/ apc[c] = "loop" /\ n_sleep[c] = attempt_num[c]
    ELSE /\ attempt_num[c] = retry_attempts
         /\ n_sleep[c] = retry_attempts - 1
         /\ \/ apc[c] = "loop"
            \/ apc[c] = "done" /\ future[c].state = "returned" /\ decision[c] = "exhausted"

C1_State ==
    \A c \in Invoked :
        last_failure[c] = AlreadyBookedError =>
            /\ apc[c] = "done"
            /\ future[c].state = "returned"
            /\ decision[c] = "already_booked"
            /\ attempt_num[c] \in 1 .. retry_attempts
            /\ n_daily_slots[c] = attempt_num[c]
            /\ n_book[c] \in 1 .. attempt_num[c]
            /\ n_sleep[c] = attempt_num[c] - 1
            /\ (attempt_num[c] = 1 => n_book[c] = 1)

C1_Step ==
    \A c \in Classes :
        last_failure[c] = AlreadyBookedError => CallCounts(c)' = CallCounts(c)

\* C1: once book() has failed with "already booked" on attempt k, the invocation
\* has returned: no daily_slots call, book call or sleep follows and no later
\* attempt starts; on attempt 1, book() was called exactly once.
C1_AlreadyBookedStops == []C1_State /\ [][C1_Step]_vars

C1_Witness ==
    \E c \in Invoked :
        /\ retry_attempts = 3
        /\ last_failure[c] = AlreadyBookedError
        /\ attempt_num[c] = 1
        /\ n_book[c] = 1
        /\ c \in collected

\* book() was reached in every attempt made so far and raised, the last time with
\* an error other than "already booked"
BookRaisedEveryAttempt(c) ==
    /\ attempt_num[c] >= 1
    /\ n_book[c] = attempt_num[c]
    /\ n_book_ok[c] = 0
    /\ last_failure[c] # NoExc
    /\ last_failure[c] # AlreadyBookedError

\* C2: when book() raises an error other than "already booked" on every attempt,
\* the n-th failure ends the invocation with n book() calls and n-1 sleeps, each
\* sleep lying between two attempts and none after the last.
C2_AllAttemptsUsed ==
    \A c \in Invoked :
        /\ attempt_num[c] >= 1 =>
               /\ n_sleep[c] \in {attempt_num[c] - 1, attempt_num[c]}
               /\ n_sleep[c] = attempt_num[c] =>
                      apc[c] = "loop" /\ attempt_num[c] < retry_attempts
        /\ (retry_attempts >= 1 /\ BookRaisedEveryAttempt(c)) =>
               /\ RetryLogicApplied(c)
               /\ apc[c] = "done" =>
                      /\ n_book[c] = retry_attempts
                      /\ n_sleep[c] = retry_attempts - 1

C2_Witness ==
    \E c \in Invoked :
        /\ retry_attempts = 2
        /\ BookRaisedEveryAttempt(c)
        /\ apc[c] = "done"
        /\ n_book[c] = 2
        /\ n_sleep[c] = 1
        /\ future[c].state = "returned"

C3_State ==
    \A c \in Invoked :
        n_book_ok[c] >= 1 =>
            /\ apc[c] = "done"
            /\ future[c].state = "returned"
            /\ decision[c] = "success"
            /\ n_book_ok[c] = 1
            /\ n_daily_slots[c] = attempt_num[c]
            /\ n_book[c] \in 1 .. attempt_num[c]
            /\ n_sleep[c] = attempt_num[c] - 1
            /\ (attempt_num[c] = 1 => n_book[c] = 1)

C3_Step ==
    \A c \in Classes : n_book_ok[c] >= 1 => CallCounts(c)' = CallCounts(c)

\* C3: the first attempt whose book() returns without error ends the invocation:
\* book() is not called again and no sleep follows, whatever attempts remain.
C3_SuccessIsTerminal == []C3_State /\ [][C3_Step]_vars

C3_Witness ==
    \E c \in Invoked :
        /\ retry_attempts = 3
        /\ attempt_num[c] = 1
        /\ decision[c] = "success"
        /\ n_book[c] = 1
        /\ n_post[c] = 1
        /\ c \in collected

C5_OneDecisionPerTarget ==
    \A c \in Classes :
        /\ n_decisions[c] <= 1
        /\ future[c].state \in {"returned", "raised"} =>
               /\ n_decisions[c] = 1
               /\ decision[c] \in {"success", "already_booked", "exhausted"}
        /\ decision[c] = "already_booked" => apc[c] = "done"

Retryable(c) ==
    \/ last_failure[c].msg \in
           {slot_unavailable, slot_not_bookable_yet, unknown_error("booking.")}
    \/ last_failure[c] = NoMatchError(c)

C7_State ==
    \A c \in Invoked :
        fetched[c] = "no_match" =>
            /\ last_failure[c] = NoMatchError(c)
            /\ attempt_num[c] \in 1 .. retry_attempts
            /\ n_daily_slots[c] = attempt_num[c]
            /\ n_book[c] <= attempt_num[c] - 1
            /\ RetryLogicApplied(c)

C7_Step ==
    \A c \in Classes : fetched'[c] = "no_match" => n_book'[c] = n_book[c]

----------------------------------------------------------------------------
(* Properties of the coordinator *)

\* the coordinator has finished its waits
Ready ==
    \/ pc \in {"pool", "submit", "collect", "returned"}
    \/ pc = "raised" /\ exc = PoolError

LoginCalls == { i \in DOMAIN calls : calls[i].op = "login" }

FirstWait == SleepCall(time_until_execution - ReauthLead,
                       execution_time - time_until_execution)

IsReauth(call) ==
    call = LoginCall(config.email, config.password, config.centre, call.at, TRUE)

\* C8: with the execution time in the future, the coordinator sleeps until 60 s
\* before it, logs in once, sleeps what then remains until the execution time (if
\* anything), sleeps booking_delay, and only then submits the attempts.
C8_CoordinatorOrder ==
    /\ Cardinality(LoginCalls) <= 1
    /\ Submitted # {} => pc \in {"submit", "collect", "returned"}
    /\ (time_until_execution > 0 /\ pc = "reauth") => calls = << FirstWait >>
    /\ (time_until_execution > 0 /\ pc = "wait_deadline") =>
           /\ Len(calls) = 2
           /\ calls[1] = FirstWait
           /\ IsReauth(calls[2])
    /\ (time_until_execution > 0 /\ Ready) =>
           LET n == Len(calls)
           IN  /\ n \in {3, 4}
               /\ calls[1] = FirstWait
               /\ IsReauth(calls[2])
               /\ calls[2].at >= execution_time - ReauthLead
               /\ calls[n] = SleepCall(booking_delay, calls[n].at)
               /\ calls[n].at >= execution_time
               /\ n = 3 => calls[3].at >= execution_time
               /\ n = 4 => /\ calls[3].at < execution_time
                           /\ calls[3] = SleepCall(execution_time - calls[3].at,
                                                   calls[3].at)

C8_Witness ==
    /\ time_until_execution > 0
    /\ pc = "returned"
    /\ Len(calls) = 4
    /\ Submitted # {}
    /\ collected = Submitted

\* C9: with less than 60 s left until the execution time, the first wait is
\* skipped: the run goes straight to the re-authentication and does not fail.
C9_ShortLeadSkipsWait ==
    (time_until_execution > 0 /\ time_until_execution < ReauthLead) =>
        /\ exc # SleepError
        /\ calls # << >> => calls[1].op = "login"

\* C10: a failed re-authentication leaves schedule_bookings as an exception: no
\* later sleep is made, no worker pool is created and no attempt runs.
C10_ReauthFailureAborts ==
    (\E i \in LoginCalls : ~calls[i].ok) =>
        /\ pc = "raised"
        /\ exc \in { r.error : r \in SportBot_login(is_logged_in) } \ {NoExc}
        /\ Len(calls) = 2
        /\ calls[2].op = "login"
        /\ ~pool.created
        /\ Submitted = {}
        /\ \A c \in Classes :
               /\ apc[c] = "idle"
               /\ n_daily_slots[c] = 0
               /\ n_book[c] = 0

C10_Witness ==
    /\ pc = "raised"
    /\ Len(calls) = 2
    /\ ~calls[2].ok
    /\ exc = Exc("ValueError", login_failed)
    /\ config.classes # << >>
    /\ ~is_logged_in

\* C11: when the execution time is not in the future ("now"), no login is made
\* and the only sleep of the coordinator is the one of booking_delay, made at
\* the instant the clock was read; the attempts are submitted after it.
C11_PastExecutionSkipsWaits ==
    /\ (config.booking_execution.now /\ pc # "start") => time_until_execution <= 0
    /\ (pc # "start" /\ time_until_execution <= 0) =>
           /\ LoginCalls = {}
           /\ pc = "delay" => calls = << >>
           /\ pc # "delay" =>
                  calls = << SleepCall(booking_delay, execution_time - time_until_execution) >>
           /\ Submitted # {} => pc \in {"submit", "collect", "returned"}
           /\ pc \in {"collect", "returned"} => Submitted = DOMAIN config.classes

C11_Witness ==
    /\ config.booking_execution.now
    /\ time_until_execution = 0
    /\ pc = "returned"
    /\ calls = << SleepCall(2, clock - 2) >>
    /\ Submitted = {1}
    /\ collected = {1}

----------------------------------------------------------------------------
(* Properties of the dispatcher *)

\* the exceptions that left attempt_booking invocations
AttemptExceptions == { future[c].exception : c \in { x \in Classes : future[x].state = "raised" } }

C13_BoundedConcurrency ==
    /\ pool.created => (pool.max_workers = max_threads /\ max_threads >= 1)
    /\ ~pool.created => Running = {}
    /\ Cardinality(Running) <= max_threads
    /\ \A c \in Classes : apc[c] \in {"loop", "book", "sleep"} <=> c \in Running
    /\ \A c \in Queued : apc[c] = "idle" /\ attempt_num[c] = 0

C13_Witness ==
    /\ max_threads = 1
    /\ Cardinality(Running) = 1
    /\ Queued # {}
    /\ \E c \in Running : attempt_num[c] >= 1

\* the arguments class c of the configuration has to be submitted with
ExpectedArgs(c) ==
    [activity |-> config.classes[c].activity, class_day |-> config.classes[c].class_day,
     class_time |-> config.classes[c].class_time, retry_attempts |-> retry_attempts,
     retry_delay |-> retry_delay, time_zone |-> time_zone]

\* C14: the pool is created with max_workers = max_threads, and once the
\* submissions are made there is one future per configured class, submitted with
\* that class's activity, class_day and class_time and the shared retry_attempts,
\* retry_delay and time_zone; no two futures carry the same class.
C14_OneSubmissionPerClass ==
    /\ pool.created => pool = [created |-> TRUE, max_workers |-> max_threads]
    /\ Submitted # {} => pool.created
    /\ Submitted \subseteq DOMAIN config.classes
    /\ \A c \in Submitted : future[c].args = ExpectedArgs(c)
    /\ \A c \in Submitted : \A d \in Submitted \ {c} : future[c].args # future[d].args
    /\ \A c \in Classes \ Submitted : future[c].args = NoArgs
    /\ pc \in {"collect", "returned"} => Submitted = DOMAIN config.classes
    /\ \A c \in Invoked : c \in Submitted

C14_Witness ==
    /\ pc = "returned"
    /\ Len(config.classes) = 2
    /\ pool = [created |-> TRUE, max_workers |-> 2]
    /\ future[1].args.activity = "Yoga"
    /\ future[2].args.activity = "Boxing"
    /\ \A c \in {1, 2} : decision[c] = "success"

\* C15: with no classes and max_threads = 0, schedule_bookings does not fail
\* when it creates the worker pool.
C15_ZeroWorkersAccepted ==
    (config.classes = << >> /\ max_threads = 0) => exc # PoolError

\* the coordinator's calls and the login state of the bot
Session == << calls, is_logged_in >>

C16_Step == (Submitted # {} \/ Submitted' # {}) => Session' = Session

\* C16: from the step that submits the first attempt on, no step logs in: the
\* coordinator's calls and the bot's login state stay as they were.
C16_NoLoginInFlight == [][C16_Step]_vars

C16_Witness ==
    /\ pc = "returned"
    /\ LoginCalls # {}
    /\ is_logged_in
    /\ \E c \in collected : n_book[c] >= 1 /\ decision[c] = "exhausted"

\* everything the invocation of class c owns
Locals(c) ==
    << attempt_num[c], booking_date[c], slot_id[c], apc[c], decision[c], last_failure[c],
       n_daily_slots[c], n_book[c], n_post[c], n_book_ok[c], n_sleep[c], fetched[c],
       n_decisions[c], future[c] >>

\* the outcome the class's own daily_slots / book results determine
OwnOutcome(c) ==
    IF n_book_ok[c] >= 1
    THEN "success"
    ELSE IF last_failure[c] = AlreadyBookedError THEN "already_booked" ELSE "exhausted"

C17_State ==
    \A c \in Invoked :
        /\ attempt_num[c] = n_daily_slots[c]
        /\ future[c].state = "returned" =>
               /\ apc[c] = "done"
               /\ decision[c] = OwnOutcome(c)
               /\ decision[c] = "exhausted" => attempt_num[c] = retry_attempts
               /\ decision[c] # "exhausted" =>
                      (n_book[c] >= 1 /\ attempt_num[c] \in 1 .. retry_attempts)
        /\ future[c].state = "running" => (apc[c] # "done" /\ decision[c] = "none")

C17_Step == Cardinality({ c \in Classes : Locals(c)' # Locals(c) }) <= 1

\* C17: a step of one invocation changes nothing another invocation owns, and the
\* attempts a class made and its outcome are those its own daily_slots and book
\* results determine, whatever its siblings did.
C17_RetryStateIsPrivate == []C17_State /\ [][C17_Step]_vars

C17_Witness ==
    \E c \in collected : \E d \in collected \ {c} :
        /\ retry_attempts = 2
        /\ decision[c] = "already_booked"
        /\ attempt_num[c] = 1
        /\ decision[d] = "exhausted"
        /\ attempt_num[d] = 2

----------------------------------------------------------------------------
(* Properties of the helpers *)

\* C18: get_n_threads raises for a requested count of 0, whatever the number of
\* bookings; else returns 0 for no bookings; else min(cpu_count, bookings) for -1
\* and min(requested, cpu_count, bookings) otherwise.  (0, 5) raises, (-1, 3) on 8
\* cores and (10, 3) on 4 cores give 3, (-1, 0) gives 0.
C18_WorkerCountRules ==
    (fn_call.fn = "get_n_threads" /\ Done(fn_result)) =>
        LET m == fn_call.max_user_threads
            n == fn_call.requested_bookings
            cpu == fn_call.cpu_count
            r == fn_result
        IN  /\ m = 0 => (~r.ok /\ r.error.type = "ValueError")
            /\ m # 0 => r.ok
            /\ (m # 0 /\ n = 0) => r.value = 0
            /\ (m = -1 /\ n # 0) => r.value = Min(cpu, n)
            /\ (m \notin {0, -1} /\ n # 0) =>
                   /\ r.value \in {m, cpu, n}
                   /\ r.value <= m
                   /\ r.value <= cpu
                   /\ r.value <= n
            /\ (m = 0 /\ n = 5) => ~r.ok
            /\ (m = -1 /\ n = 3 /\ cpu = 8) => r.value = 3
            /\ (m = 10 /\ n = 3 /\ cpu = 4) => r.value = 3
            /\ (m = -1 /\ n = 0) => r.value = 0

C18_Witness ==
    /\ fn_call.fn = "get_n_threads"
    /\ fn_call.max_user_threads = 0
    /\ fn_call.requested_bookings = 0
    /\ Done(fn_result)
    /\ ~fn_result.ok

\* the weekday a schedule specification names
TargetWeekday(booking_execution) ==
    CHOOSE d \in 0 .. 6 :
        LowerStrip(booking_execution.day) =
            (<< "monday", "tuesday", "wednesday", "thursday", "friday", "saturday",
                "sunday" >>)[d + 1]

\* C19: for a (weekday, time) specification, the result is today at the target
\* time when today is that weekday and the time of now is before the target
\* time; otherwise it is the target time on the next date of that weekday, 1 to
\* 7 days after today, and exactly 7 days when today is that weekday.
C19_NextExecution ==
    (fn_call.fn = "calculate_next_execution" /\ Done(fn_result)
        /\ ~fn_call.booking_execution.now) =>
        LET be == fn_call.booking_execution
            now == fn_call.now
            today == DateOf(now)
            same_day == WeekdayOf(now) = TargetWeekday(be)
            r == fn_result.value
        IN  /\ fn_result.ok
            /\ TimeOf(r) = be.time
            /\ WeekdayOf(r) = TargetWeekday(be)
            /\ (same_day /\ TimeOf(now) < be.time) => DateOf(r) = today
            /\ ~(same_day /\ TimeOf(now) < be.time) => DateOf(r) - today \in 1 .. 7
            /\ (same_day /\ TimeOf(now) >= be.time) => DateOf(r) = today + 7

C19_Witness ==
    /\ fn_call = ExecutionCall(ExecAt("Monday", HMS(20, 0, 0)), At(0, HMS(22, 0, 0)))
    /\ Done(fn_result)
    /\ fn_result.value = At(7, HMS(20, 0, 0))

\* C20: for "now" the result is the instant read as now, unchanged.
C20_NowIsNow ==
    (fn_call.fn = "calculate_next_execution" /\ Done(fn_result)
        /\ fn_call.booking_execution.now) =>
        /\ fn_result.ok
        /\ fn_result.value = fn_call.now

C20_Witness ==
    /\ fn_call = ExecutionCall(ExecNow, At(2, HMS(22, 0, 0)))
    /\ Done(fn_result)
    /\ fn_result.value = At(2, HMS(22, 0, 0))

\* the weekday a day name stands for
WeekdayNamed(day) == TargetWeekday(ExecAt(day, 0))

\* C21: calculate_class_day never returns today's date: the date is after today,
\* and 7 days after today when today is the requested weekday.
C21_ClassDayNeverToday ==
    (fn_call.fn = "calculate_class_day" /\ Done(fn_result)) =>
        LET today == DateOf(fn_call.now)
            r == fn_result.value
        IN  /\ DateOf(r) > today
            /\ WeekdayOf(fn_call.now) = WeekdayNamed(fn_call.class_day) =>
                   DateOf(r) = today + 7

\* C22: calculate_class_day returns the nearest date after today that falls on
\* the requested weekday, also across the end of the week.
C22_ClassDayNearest ==
    (fn_call.fn = "calculate_class_day" /\ Done(fn_result)) =>
        LET today == DateOf(fn_call.now)
            r == fn_result.value
        IN  /\ WeekdayOf(r) = WeekdayNamed(fn_call.class_day)
            /\ DateOf(r) - today \in 1 .. 7
            /\ \A d \in 1 .. 7 :
                   (today + d) % 7 = WeekdayNamed(fn_call.class_day) => DateOf(r) <= today + d

----------------------------------------------------------------------------
(* Properties of SportBot and Bookings *)

\* the last call on the bot was book or cancel
BookOrCancel == fn_call.fn \in { "book", "cancel" }

\* the booking and cancellation requests the last call sent
ActionRequests ==
    SelectSeq(requests, LAMBDA r : r.endpoint \in { "BOOKING", "CANCELLATION" })

\* the last call got the day's slots from the platform
SlotsFetched ==
    /\ Len(requests) >= 1
    /\ requests[1].endpoint = "SLOTS"
    /\ fn_result.error # Exc("ValueError", failed_fetch("slots."))

\* the rows of the day's table that carry the timestamp asked for
ExactRows == { j \in 1 .. Len(server.slots) :
                 server.slots[j].start_timestamp = fn_call.start_time }

\* C23: the slot matcher selects by exact equality of the start timestamp: the
\* slot a book or cancel call acts on carries exactly the timestamp asked for,
\* and with no such slot in the day's table nothing is selected.
C23_ExactTimestampOnly ==
    BookOrCancel =>
        /\ \A i \in 1 .. Len(ActionRequests) :
              \A j \in 1 .. Len(server.slots) :
                 server.slots[j].id_activity_calendar = ActionRequests[i].id_activity_calendar
                    => server.slots[j].start_timestamp = fn_call.start_time
        /\ (SlotsFetched /\ ExactRows = {}) =>
              /\ ActionRequests = << >>
              /\ fn_result.error.type = "IndexError"

C23_Witness ==
    /\ fn_call = BotCall("book", "Yoga", Timestamp(BotDay, T1800))
    /\ server.slots = << Slot(BotDay, T175959, 2) >>
    /\ SlotsFetched
    /\ fn_result.error.type = "IndexError"
    /\ ActionRequests = << >>

\* C24: with no slot at the timestamp asked for, book and cancel raise an error
\* that carries the activity, the date and the time, before any booking or
\* cancellation request is sent.
C24_NoMatchRaisesBeforeRequest ==
    (BookOrCancel /\ SlotsFetched /\ ExactRows = {}) =>
        /\ ~fn_result.ok
        /\ fn_result.error.type = "IndexError"
        /\ Contains(fn_result.error.msg, << fn_call.activity >>)
        /\ Contains(fn_result.error.msg,
                    << ToString(fn_call.start_time[1]), ToString(fn_call.start_time[2]) >>)
        /\ fn_result.posts = 0
        /\ ActionRequests = << >>

C24_Witness ==
    /\ fn_call = BotCall("cancel", "Yoga", Timestamp(BotDay, T180001))
    /\ Len(server.slots) = 3
    /\ SlotsFetched
    /\ fn_result.error = Exc("IndexError", slot_not_found("Yoga", Timestamp(BotDay, T180001)))

\* the first row of the day's table with the timestamp asked for
FirstExactRow == CHOOSE j \in ExactRows : \A k \in ExactRows : j <= k

\* C25: with several slots at the timestamp asked for, book and cancel send the
\* id_activity_calendar of the first of them in the order of daily_slots, once,
\* and no other id.
C25_FirstMatchIsUsed ==
    (BookOrCancel /\ SlotsFetched /\ ExactRows # {}) =>
        /\ Len(ActionRequests) = 1
        /\ ActionRequests[1].id_activity_calendar =
              server.slots[FirstExactRow].id_activity_calendar
        /\ ActionRequests[1].endpoint =
              IF fn_call.fn = "book" THEN "BOOKING" ELSE "CANCELLATION"

C25_Witness ==
    /\ fn_call = BotCall("book", "Yoga", Timestamp(BotDay, T1800))
    /\ Cardinality(ExactRows) = 2
    /\ ActionRequests = << Request("BOOKING", 1) >>
    /\ fn_result.ok

\* the four kinds of failure of Bookings.book
AlreadyBooked == Exc("ValueError", slot_already_booked)

Unavailable == Exc("ValueError", slot_unavailable)

NotYetBookable == Exc("ValueError", slot_not_bookable_yet)

UnknownBookingError == Exc("RuntimeError", unknown_error("booking."))

\* C26: Bookings.book returns normally exactly when the platform reports
\* success; otherwise the error code decides which of four distinguishable
\* errors it raises: 5 already booked, 6 unavailable, 28 not yet bookable, any
\* other code the unknown error, of another exception type.
C26_BookingErrorKinds ==
    (fn_call.fn = "Bookings.book" /\ Done(fn_result)) =>
        LET code == fn_call.response_json.error
        IN  /\ fn_result.ok <=> fn_call.response_json.success
            /\ fn_result.posts = 1
            /\ ~fn_result.ok =>
                  fn_result.error = CASE code = 5 -> AlreadyBooked
                                      [] code = 6 -> Unavailable
                                      [] code = 28 -> NotYetBookable
                                      [] OTHER -> UnknownBookingError
            /\ Cardinality({ AlreadyBooked.msg, Unavailable.msg, NotYetBookable.msg,
                              UnknownBookingError.msg }) = 4
            /\ UnknownBookingError.type
                  \notin { AlreadyBooked.type, Unavailable.type, NotYetBookable.type }

C26_Witness ==
    /\ fn_call = BookingsBookCall([success |-> FALSE, error |-> 7])
    /\ fn_result = Sent(Raise(UnknownBookingError))

\* what the call of this step sent as its booking or cancellation request
ActionRequestsNext ==
    SelectSeq(requests', LAMBDA r : r.endpoint \in { "BOOKING", "CANCELLATION" })

\* C27, state part: right after book succeeded, the slot it acted on is booked
C27_BookedAfterBook ==
    (fn_call.fn = "book" /\ fn_result.ok) =>
        /\ ExactRows # {}
        /\ server.slots[FirstExactRow].id_activity_calendar \in server.booked

\* C27, step part: a cancel call that reaches the platform succeeds and leaves
\* the slot unbooked if the slot was booked, and fails with the
\* cancellation-failed error, changing nothing, if it was not
C27_CancelStep ==
    (fn_call'.fn = "cancel" /\ ActionRequestsNext # << >>) =>
        LET id == ActionRequestsNext[1].id_activity_calendar
        IN  IF id \in server.booked
            THEN /\ fn_result'.ok
                 /\ server'.booked = server.booked \ { id }
            ELSE /\ fn_result'.error = Exc("ValueError", cancellation_failed)
                 /\ server' = server

\* C27: book / cancel round trip against a platform that keeps the user's
\* booked slots: after book succeeds the slot is booked, cancel of a booked slot
\* succeeds and leaves it unbooked, cancel of a slot that is not booked fails
\* with the cancellation-failed error.
C27_BookCancelRoundTrip == []C27_BookedAfterBook /\ [][C27_CancelStep]_vars

\* cancel succeeded; as no slot is booked initially, book had succeeded before
C27_Witness ==
    /\ fn_call = BotCall("cancel", "Yoga", Timestamp(BotDay, T1800))
    /\ fn_result.ok
    /\ ActionRequests = << Request("CANCELLATION", 1) >>
    /\ 1 \notin server.booked

\* the last call was a login that failed inside Authenticator.login
FailedInAuthenticator ==
    /\ fn_call.fn = "login"
    /\ fn_call.centre \in Centres
    /\ ~fn_result.ok
    /\ \A i \in 1 .. Len(requests) : requests[i].endpoint # "ACTIVITIES"

\* C28: login with an invalid centre raises centre-not-found before any request
\* is sent; with invalid credentials it raises the login-failed error; every
\* failure inside Authenticator.login reaches the caller as the same
\* login-failed ValueError; after a login that returns, is_logged_in() is True.
C28_LoginErrors ==
    fn_call.fn = "login" =>
        /\ fn_call.centre \notin Centres =>
              /\ fn_result.error = Exc("ValueError", centre_not_found(fn_call.centre))
              /\ requests = << >>
        /\ (fn_call.centre \in Centres /\ fn_call.password # "pass") =>
              fn_result.error = Exc("ValueError", login_failed)
        /\ FailedInAuthenticator => fn_result.error = Exc("ValueError", failed_login)
        /\ fn_result.ok => is_logged_in

\* a login that failed at the last step of Authenticator.login
C28_Witness ==
    /\ FailedInAuthenticator
    /\ Len(requests) = 3
    /\ requests[3].endpoint = "USER"
    /\ fn_result.error = Exc("ValueError", failed_login)
    /\ ~is_logged_in

----------------------------------------------------------------------------
(* Properties of run_service *)

\* the workflow of run_service for a config that validation accepts
Workflow ==
    << "validate_config", "SportBot.login", "validate_activities", "get_n_threads",
       "schedule_bookings" >>

\* C29: run_service validates the configuration, logs in, validates the
\* activities, resolves the worker count and calls schedule_bookings once, in
\* this order; a configuration error propagates with neither login nor
\* scheduling having taken place.
C29_RunServiceOrder ==
    (fn_call.fn = "run_service" /\ Done(fn_result)) =>
        IF fn_call.config_ok
        THEN /\ fn_result.ok
             /\ fn_result.value = Workflow
        ELSE /\ fn_result.error.type = "ValueError"
             /\ fn_result.value = << "validate_config" >>

----------------------------------------------------------------------------
(* Termination *)

Pending == Queued \cup Running

\* at most retry_attempts attempts per invocation, and a returned
\* schedule_bookings has submitted every class and seen every future complete
C30_State ==
    /\ \A c \in Submitted :
          /\ attempt_num[c] <= future[c].args.retry_attempts
          /\ n_daily_slots[c] <= future[c].args.retry_attempts
          /\ n_book[c] <= attempt_num[c]
    /\ pc = "returned" =>
          /\ Submitted = 1 .. Len(config.classes)
          /\ Pending = {}
          /\ \A c \in Submitted : apc[c] = "done"

\* a dispatched work item only moves forward: queued, running, completed; a
\* completed future stays as it is; no step ends an attempt mid-flight, an
\* invocation ends by its own return or by its own exception
C30_Step ==
    \A c \in Classes :
       /\ future[c].state = "queued" => future'[c].state \in { "queued", "running" }
       /\ future[c].state = "running" =>
             \/ future'[c].state = "running"
             \/ /\ future'[c].state = "returned"
                /\ decision'[c] \in { "success", "already_booked", "exhausted" }
                /\ decision[c] = "none"
             \/ /\ future'[c].state = "raised"
                /\ future'[c].exception # NoExc
       /\ c \in Finished => future'[c] = future[c]

\* from some point on no work item is queued or running and schedule_bookings
\* has returned or raised; with C30_Step, every dispatched item has completed
C30_Live == <>[](Pending = {} /\ (pc = "returned" \/ exc # NoExc))

\* C30: once dispatched, every attempt runs to its own completion or exhaustion
\* and nothing cancels it; if every call and every sleep returns, every
\* attempt_booking invocation ends after at most retry_attempts attempts, and
\* schedule_bookings returns only after every submitted attempt has completed.
C30_Terminates == []C30_State /\ [][C30_Step]_vars /\ C30_Live

\* schedule_bookings returned after two invocations, one of which used up all
\* its attempts
C30_Witness ==
    /\ pc = "returned"
    /\ Cardinality(Submitted) = 2
    /\ \E c \in Submitted :
          /\ decision[c] = "exhausted"
          /\ attempt_num[c] = retry_attempts
          /\ retry_attempts >= 2

----------------------------------------------------------------------------
(* Properties of validate_config *)

\* "now" or "<weekday> HH:MM:SS"
WellFormedExecution(text) ==
    \/ text = << "now" >>
    \/ /\ Len(text) = 2
       /\ LowerStrip(text[1]) \in DOMAIN DAY_MAP
       /\ text[2] \in TimeTexts

\* C31: validate_config rejects a config that lacks a required top-level key,
\* naming the key; rejects a class entry without activity, class_day or
\* class_time; rejects a booking_execution that is neither "now" nor
\* "<weekday> HH:MM:SS"; and accepts a config with booking_execution "now"
\* whose classes each carry exactly activity, class_day and class_time.
C31_ValidateConfig ==
    (fn_call.fn = "validate_config" /\ Done(fn_result)) =>
        LET cfg == fn_call.config
            missing == { "email", "password", "classes" } \ cfg.keys
            entries == { cfg.classes[i] : i \in 1 .. Len(cfg.classes) }
        IN  /\ missing # {} =>
                  /\ fn_result.error.type = "ValueError"
                  /\ \E key \in missing : Contains(fn_result.error.msg, << key >>)
            /\ (missing = {} /\ \E c \in entries : ClassKeys \ c.keys # {}) =>
                  fn_result.error.type = "ValueError"
            /\ (missing = {} /\ ~WellFormedExecution(cfg.booking_execution)) =>
                  fn_result.error.type = "ValueError"
            /\ (/\ missing = {}
                /\ cfg.booking_execution = << "now" >>
                /\ \A c \in entries : c.keys = ClassKeys) => fn_result.ok

----------------------------------------------------------------------------
(* Properties of the timing *)

\* this step makes a daily_slots or a book call for class c
CallsPlatform(c) ==
    \/ n_daily_slots'[c] > n_daily_slots[c]
    \/ n_book'[c] > n_book[c]

C32_Step ==
    \A c \in Classes :
       (time_until_execution > 0 /\ CallsPlatform(c)) =>
           clock >= execution_time + booking_delay

\* C32: in a run whose execution time lies in the future, every daily_slots and
\* book call of an attempt is made at a clock value of at least execution_time
\* + booking_delay, however long the sleeps overshoot and the
\* re-authentication takes.
C32_NoEarlyAttempt == [][C32_Step]_vars

\* an attempt made after a re-authentication that overran the execution time
C32_Witness ==
    /\ time_until_execution > 0
    /\ booking_delay > 0
    /\ n_daily_slots[1] = 1
    /\ \E i \in 1 .. Len(calls) :
          /\ calls[i].op = "login"
          /\ calls[i].at + 61 > execution_time
          /\ clock >= calls[i].at + 61 + booking_delay

-----------------------------------------------------------------------------
(* Properties of the Authenticator *)

LoginReturned == fn_call.fn = "Authenticator.login" /\ Done(fn_result)

\* the step at which the platform's answers make the login fail, 0 if none
FailingStep(replies) ==
    IF replies.user_login # "ok" THEN 1
    ELSE IF replies.sport_token # "ok" THEN 3
    ELSE IF replies.user # "ok" THEN 5
    ELSE 0

\* the requests of the first n steps
RECURSIVE StepRequests(_)
StepRequests(n) ==
    IF n = 0 THEN << >>
    ELSE StepRequests(n - 1) \o
         CASE n = 1 -> << Request("USER_LOGIN", 0) >>
           [] n = 3 -> << Request("SPORT_USER_TOKEN", 0) >>
           [] n = 5 -> << Request("USER", 0) >>
           [] OTHER -> << >>

\* C33: Authenticator.login runs its five steps in the order of LoginSteps and
\* stops at the first step that fails: the steps run and the requests sent are
\* those up to the failing step; authenticated is True exactly when the last
\* step succeeded; a failed login leaves authenticated False and user_id None
\* and raises.
C33_LoginStepsInOrder ==
    LoginReturned =>
       LET k == FailingStep(fn_call.replies)
           n == IF k = 0 THEN Len(LoginSteps) ELSE k
       IN  /\ fn_result.value = SubSeq(LoginSteps, 1, n)
           /\ requests = StepRequests(n)
           /\ auth.authenticated <=> k = 0
           /\ fn_result.ok <=> k = 0
           /\ k # 0 => ~auth.authenticated /\ auth.user_id = ""

\* a login that fails at getSportUserToken on an Authenticator that was logged in
C33_Witness ==
    /\ LoginReturned
    /\ FailingStep(fn_call.replies) = 3
    /\ Len(fn_result.value) = 3
    /\ Len(calls) >= 2
    /\ calls[Len(calls) - 1].ok
    /\ ~auth.authenticated
    /\ auth.creds # {}

\* C39: whenever authenticated is True, sport_jwt and user_id are set, creds
\* holds the id_application and id_user of the login, and the shared headers
\* carry the Authorization "Bearer " + sport_jwt, after any sequence of logins.
C39_AuthenticatedState ==
    auth.authenticated =>
       /\ auth.sport_jwt # ""
       /\ auth.user_id # ""
       /\ auth.id_application # "" /\ auth.id_user # ""
       /\ auth.creds = { << "id_application", auth.id_application >>,
                         << "id_user", auth.id_user >> }
       /\ headers = Bearer(auth.sport_jwt)

\* a successful login with a new token after a failed one after a successful one
C39_Witness ==
    /\ auth.authenticated
    /\ Len(calls) = 3
    /\ calls[1].ok /\ ~calls[2].ok /\ calls[3].ok
    /\ calls[1].jwt # calls[3].jwt
    /\ headers = Bearer(calls[3].jwt)

-----------------------------------------------------------------------------
(* attempt_booking with no attempt allowed *)

\* C34: an invocation of attempt_booking with retry_attempts = 0 that has ended
\* made no daily_slots call, no book call and no sleep, and returned normally.
C34_ZeroAttemptsReturn ==
    \A c \in Classes :
       (retry_attempts = 0 /\ future[c].state \in {"returned", "raised"}) =>
           /\ n_daily_slots[c] = 0
           /\ n_book[c] = 0
           /\ n_sleep[c] = 0
           /\ future[c].state = "returned"

-----------------------------------------------------------------------------
(* The worker count as a pool size *)

\* C35: for every requested count other than 0 and every number of bookings
\* >= 0, get_n_threads returns a value in 0 .. requested_bookings, and a value
\* >= 1 whenever there is a booking.
C35_WorkerCountUsable ==
    (/\ fn_call.fn = "get_n_threads"
     /\ Done(fn_result)
     /\ fn_call.max_user_threads # 0
     /\ fn_call.requested_bookings >= 0) =>
        /\ fn_result.ok
        /\ fn_result.value \in 0 .. fn_call.requested_bookings
        /\ fn_call.requested_bookings >= 1 => fn_result.value >= 1

-----------------------------------------------------------------------------
(* The next execution as an instant *)

ExecutionReturned ==
    /\ fn_call.fn = "calculate_next_execution"
    /\ Done(fn_result)
    /\ ~fn_call.booking_execution.now

\* the seconds from the now of the call to the instant it returned
UntilExecution ==
    Elapsed(fn_call.now, fn_call.utcoffset, fn_result.value, fn_result.utcoffset)

\* C36: for a (weekday, time) specification the instant returned is strictly
\* after now and at most 7 days after now, falls on the requested weekday and
\* has exactly the requested time of day.
C36_WithinSevenDays ==
    ExecutionReturned =>
        /\ fn_result.ok
        /\ UntilExecution > 0
        /\ UntilExecution <= 7 * DaySecs
        /\ WeekdayOf(fn_result.value) = TargetWeekday(fn_call.booking_execution)
        /\ TimeOf(fn_result.value) = fn_call.booking_execution.time

\* C36, amended: the instant returned is strictly after now; on the wall clock
\* it is at most 7 days after now, and in elapsed time at most 7 days plus the
\* hour of a clock change in between (7 days when the offset from UTC is the
\* same at both ends); it falls on the requested weekday and has exactly the
\* requested time of day.
C36_WithinSevenWallClockDays ==
    ExecutionReturned =>
        /\ fn_result.ok
        /\ UntilExecution > 0
        /\ UntilExecution <= 7 * DaySecs + (CEST - CET)
        /\ fn_call.utcoffset = fn_result.utcoffset => UntilExecution <= 7 * DaySecs
        /\ fn_result.value - fn_call.now \in 1 .. 7 * DaySecs
        /\ WeekdayOf(fn_result.value) = TargetWeekday(fn_call.booking_execution)
        /\ TimeOf(fn_result.value) = fn_call.booking_execution.time

\* Monday 20:00:00 asked on the Monday 20:00:00 of the week the clocks fall back
C36_Witness ==
    /\ ExecutionReturned
    /\ fn_call.season = "october"
    /\ fn_call.now = At(0, HMS(20, 0, 0))
    /\ fn_result.value = At(7, HMS(20, 0, 0))
    /\ UntilExecution = 7 * DaySecs + 3600

-----------------------------------------------------------------------------
(* The bot while it is not logged in *)

Queries == { "activities", "daily_slots", "book", "cancel" }

C37_Step ==
    (~is_logged_in /\ fn_call'.fn \in Queries) =>
        /\ fn_result' = Raise(Exc("PermissionError", not_logged_in))
        /\ requests' = << >>
        /\ server' = server
        /\ is_logged_in' = is_logged_in
        /\ df_activities' = df_activities
        /\ auth' = auth
        /\ headers' = headers

\* C37: while the bot is not logged in, activities, daily_slots, book and
\* cancel raise PermissionError, send no request to the platform, and leave the
\* login flag, the cached activities and the platform as they were.
C37_NotLoggedInRaises == [][C37_Step]_vars

\* a cancel refused after a login that failed, the activities of an earlier
\* login still cached and a class booked on the platform
C37_Witness ==
    /\ ~is_logged_in
    /\ df_activities
    /\ server.booked # {}
    /\ fn_call.fn = "cancel"
    /\ fn_result = Raise(Exc("PermissionError", not_logged_in))
    /\ requests = << >>

-----------------------------------------------------------------------------
(* The login flag after a login that raised *)

\* C38: after a call of SportBot.login that raised (invalid centre, failed
\* authentication or failed fetch of the activities) the login flag is False,
\* whatever the bot's state before the call.
C38_FailedLoginLogsOut ==
    (fn_call.fn = "login" /\ Done(fn_result) /\ ~fn_result.ok) => ~is_logged_in

-----------------------------------------------------------------------------
(* The booking requests of an invocation *)

\* the results Bookings.book leaves in last_failure: none after a success, or
\* the error of the platform's answer
AnsweredByPlatform(e) ==
    \/ e = NoExc
    \/ e \in { Exc("ValueError", slot_already_booked), Exc("ValueError", slot_unavailable),
                Exc("ValueError", slot_not_bookable_yet),
                Exc("RuntimeError", unknown_error("booking.")) }

C40_State ==
    \A c \in Classes :
       /\ n_post[c] <= n_book[c]
       /\ n_book[c] <= attempt_num[c]
       /\ attempt_num[c] <= retry_attempts

C40_Step ==
    \A c \in Classes :
       n_post'[c] # n_post[c] =>
          /\ n_post'[c] = n_post[c] + 1
          /\ n_book'[c] = n_book[c] + 1
          /\ apc[c] = "book"
          /\ fetched[c] = "match"
          /\ slot_id[c] = Timestamp(booking_date[c], future[c].args.class_time)
          /\ AnsweredByPlatform(last_failure'[c])

\* C40: at every point of an invocation the booking requests sent are at most
\* the book calls made, these at most the attempts started, and these at most
\* retry_attempts; a request is sent only by the book call of an attempt whose
\* own lookup found a slot with the exact timestamp (slot_id), one request per
\* call, and only when SportBot.book's lookup found the slot too, so that the
\* call ends with the platform's answer.
C40_RequestsBounded == []C40_State /\ [][C40_Step]_vars

\* three attempts, three book calls, and two requests: in one call the lookup
\* of SportBot.book found no slot
C40_Witness ==
    /\ attempt_num[1] = 3
    /\ n_book[1] = 3
    /\ n_post[1] = 2
    /\ retry_attempts = 3

====
